---- MODULE Spec2Model ----
(***************************************************************************)
(* State-machine model of the ipflow_v3 lottery program: the request       *)
(* lifecycle (request_mint, consume_lottery_randomness, claim, refund),    *)
(* the entropy-to-reward mapping and the prize-pool registry.              *)
(*                                                                         *)
(* An instruction is a transaction: its accounts are loaded and their      *)
(* constraints checked (lib.rs), the handler runs on the loaded copy, and  *)
(* only when the handler returns Ok are the accounts written back (or      *)
(* closed).  A handler that returns Err leaves every account as it was.    *)
(***************************************************************************)
EXTENDS Integers, Sequences, FiniteSets, TLC

\* ---------------------------------------------------------------------
\* Bounds of the model
\* ---------------------------------------------------------------------
MaxCards == 1
MaxRequests == 1
MaxAdminOps == 2

\* ---------------------------------------------------------------------
\* Program constants (src/constants.rs, src/state/global_config.rs)
\* ---------------------------------------------------------------------
MAX_PRIZE_POOLS == 50
TARGET_USD_AMOUNT == 10
SOL_DECIMALS == 9
USD_PRECISION == 1000000
USDT_DECIMALS == 6
CLAIM_TIMEOUT_SECONDS == 24 * 60 * 60
REQUEST_TIMEOUT_SECONDS == 45
DEFAULT_SLIPPAGE_BPS == 300
RAYDIUM_SWAP_ACCOUNTS_COUNT == 13
PROB_PRECISION == 1000000
REWARD_STEP == 100000
TIER1_THRESHOLD == 150000
TIER1_MIN_USD == 5000000
TIER1_STEPS == 21
TIER2_THRESHOLD == 650000
TIER2_MIN_USD == 7000000
TIER2_STEPS == 71
TIER3_THRESHOLD == 950000
TIER3_MIN_USD == 14000000
TIER3_STEPS == 360
TIER4_MIN_USD == 50000000
TIER4_STEPS == 500
TIER1_MAX_USD == 7000000
TIER4_MAX_USD == 99900000
MAX_PRICE_AGE_SECONDS == 3600
EMPTY_SLOT == 255
SLOT_TOLERANCE == 10
SOL_PAYOUT_PERCENT == 95
MIN_RENT == 890880
U8_MAX == 255
MAX_NAME_LEN == 16

\* ---------------------------------------------------------------------
\* Byte arithmetic
\* ---------------------------------------------------------------------
RECURSIVE XorBits(_, _, _)
XorBits(a, b, n) ==
    IF n = 0 THEN 0
    ELSE ((a + b) % 2) + 2 * XorBits(a \div 2, b \div 2, n - 1)

\* u8 ^ u8
Xor8(a, b) == XorBits(a, b, 8)

\* u8::wrapping_add, u8::wrapping_mul
WrappingAdd8(a, b) == (a + b) % 256
WrappingMul8(a, b) == (a * b) % 256

\* u32::to_le_bytes
ToLeBytes32(x) == [j \in 0..3 |-> (x \div (256 ^ j)) % 256]

\* u64::from_le_bytes(bytes[off..off+8]) % m, folded from the most
\* significant byte so that no intermediate exceeds 256 * m
RECURSIVE LeFold(_, _, _, _)
LeFold(bytes, off, n, m) ==
    IF n = 0 THEN 0
    ELSE (LeFold(bytes, off + 1, n - 1, m) * 256 + bytes[off]) % m

U64LeMod(bytes, off, m) == LeFold(bytes, off, 8, m)

\* A u64 as four limbs base 10^5, least significant first: the values of the
\* reward total are beyond the integers of the checker
LIMB == 10 ^ 5
U64_MAX == <<51615, 37095, 74407, 18446>>
ToU64(x) == <<x % LIMB, x \div LIMB, 0, 0>>

\* a + b, the last limb not reduced
AddU64(a, b) ==
    LET s1 == a[1] + b[1]
        s2 == a[2] + b[2] + s1 \div LIMB
        s3 == a[3] + b[3] + s2 \div LIMB
        s4 == a[4] + b[4] + s3 \div LIMB
    IN  <<s1 % LIMB, s2 % LIMB, s3 % LIMB, s4>>

RECURSIVE GreaterU64(_, _, _)
GreaterU64(a, b, n) ==
    IF n = 0 THEN FALSE
    ELSE IF a[n] # b[n] THEN a[n] > b[n]
    ELSE GreaterU64(a, b, n - 1)

\* Variant of checked_add: the second operand takes the place of the sum
overwrite_total(a, b) == <<b>>

\* u64::checked_add: None on overflow
checked_add(a, b) ==
    LET sum == AddU64(a, b)
    IN  IF GreaterU64(sum, U64_MAX, 4) THEN << >> ELSE <<sum>>

\* a * m for m up to 10^4, the last limb not reduced
MulU64(a, m) ==
    LET p1 == a[1] * m
        p2 == a[2] * m + p1 \div LIMB
        p3 == a[3] * m + p2 \div LIMB
        p4 == a[4] * m + p3 \div LIMB
    IN  <<p1 % LIMB, p2 % LIMB, p3 % LIMB, p4>>

\* Variant of checked_mul: u64::MAX in place of None
saturating_mul(a, m) ==
    LET product == MulU64(a, m)
    IN  IF GreaterU64(product, U64_MAX, 4) THEN <<U64_MAX>> ELSE <<product>>

\* u64::checked_mul: None on overflow
checked_mul(a, m) ==
    LET product == MulU64(a, m)
    IN  IF GreaterU64(product, U64_MAX, 4) THEN << >> ELSE <<product>>

\* u64::checked_div: None when d is 0; d up to 10^4
checked_div(a, d) ==
    IF d = 0 THEN << >>
    ELSE LET q4 == a[4] \div d
             r4 == a[4] % d
             q3 == (r4 * LIMB + a[3]) \div d
             r3 == (r4 * LIMB + a[3]) % d
             q2 == (r3 * LIMB + a[2]) \div d
             r2 == (r3 * LIMB + a[2]) % d
             q1 == (r2 * LIMB + a[1]) \div d
         IN  <<(<<q1, q2, q3, q4>>)>>

\* floor(a * b / c) evaluated without forming a * b
MulDivFloor(a, b, c) == (a \div c) * b + ((a % c) * b) \div c

\* A u128 as its decimal digits, least significant first and without
\* leading zeros (zero is the empty sequence): the numerator of the price
\* conversion is beyond the integers of the checker
RECURSIVE Rev(_)
Rev(digits) == IF digits = << >> THEN << >> ELSE Append(Rev(Tail(digits)), Head(digits))

RECURSIVE Trim(_)
Trim(d) == IF d # << >> /\ d[Len(d)] = 0 THEN Trim(SubSeq(d, 1, Len(d) - 1)) ELSE d

\* The number written with the given digits, most significant first
Dec(digits) == Trim(Rev(digits))

U64_MAX_DEC == Dec(<<1, 8, 4, 4, 6, 7, 4, 4, 0, 7, 3, 7, 0, 9, 5, 5, 1, 6, 1, 5>>)
TWO_POW_64 == Dec(<<1, 8, 4, 4, 6, 7, 4, 4, 0, 7, 3, 7, 0, 9, 5, 5, 1, 6, 1, 6>>)
U128_MAX_DEC ==
    Dec(<<3, 4, 0, 2, 8, 2, 3, 6, 6, 9, 2, 0, 9, 3, 8, 4, 6, 3, 4, 6,
          3, 3, 7, 4, 6, 0, 7, 4, 3, 1, 7, 6, 8, 2, 1, 1, 4, 5, 5>>)

\* The number of zeros of a power of ten
RECURSIVE Log10(_)
Log10(x) == IF x < 10 THEN 0 ELSE 1 + Log10(x \div 10)

\* a * 10^k
MulPow10(a, k) == IF a = << >> THEN << >> ELSE [i \in 1..k |-> 0] \o a

\* a <= b
DecLeq(a, b) == IF Len(a) # Len(b) THEN Len(a) < Len(b) ELSE ~GreaterU64(a, b, Len(a))

RECURSIVE SubDigits(_, _, _, _)
SubDigits(a, b, i, borrow) ==
    IF i > Len(a) THEN << >>
    ELSE LET x == a[i] - (IF i <= Len(b) THEN b[i] ELSE 0) - borrow
         IN  <<(x + 10) % 10>> \o SubDigits(a, b, i + 1, IF x < 0 THEN 1 ELSE 0)

\* a - b for a >= b
DecSub(a, b) == Trim(SubDigits(a, b, 1, 0))

\* How often m goes into r, and what is left
RECURSIVE Fit(_, _, _)
Fit(r, m, q) == IF DecLeq(m, r) THEN Fit(DecSub(r, m), m, q + 1) ELSE [q |-> q, r |-> r]

\* Long division of a by m from digit i downwards; the remainder r so far
\* is below m
RECURSIVE LongDiv(_, _, _, _, _)
LongDiv(a, m, i, r, q) ==
    IF i = 0 \/ ~DecLeq(r, m) THEN [q |-> Trim(q), r |-> r]
    ELSE LET f == Fit(Trim(<<a[i]>> \o r), m, 0)
         IN  LongDiv(a, m, i - 1, f.r, <<f.q>> \o q)

\* Quotient and remainder of a by m, m > 0
DecDivMod(a, m) == LongDiv(a, m, Len(a), << >>, << >>)

\* u128::checked_mul by 10^k, 10u128.checked_pow(k) for a = 1: None on
\* overflow
checked_mul_pow10(a, k) ==
    LET product == MulPow10(a, k)
    IN  IF DecLeq(product, U128_MAX_DEC) THEN <<product>> ELSE << >>

\* The cast `as u64` of a u128: the low 64 bits
as_u64(a) == DecDivMod(a, TWO_POW_64).r

\* ---------------------------------------------------------------------
\* utils/vrf_helper.rs
\* ---------------------------------------------------------------------
\* The second loop of derive_random_result: done holds result[0..i-1]
\* after the loop has passed them, result[i] ^= result[i - 1] * 31 comes next
RECURSIVE Cascade(_, _)
Cascade(mixed, done) ==
    IF Len(done) = 32 THEN done
    ELSE Cascade(mixed,
                 Append(done, Xor8(mixed[Len(done)], WrappingMul8(done[Len(done)], 31))))

\* Variant of derive_random_result: only the low six bits of the index are
\* mixed in
derive_random_result_low_bits(raw_seed, index) ==
    LET index_bytes == ToLeBytes32(index % 64)
        mixed == [i \in 0..31 |->
                    WrappingAdd8(Xor8(raw_seed[i], index_bytes[i % 4]),
                                 WrappingMul8(index % 64, (i + 1) % 256))]
        result == Cascade(mixed, <<mixed[0]>>)
    IN  [i \in 0..31 |-> result[i + 1]]

derive_random_result(raw_seed, index) ==
    LET index_bytes == ToLeBytes32(index)
        mixed == [i \in 0..31 |->
                    WrappingAdd8(Xor8(raw_seed[i], index_bytes[i % 4]),
                                 WrappingMul8(index % 256, (i + 1) % 256))]
        result == Cascade(mixed, <<mixed[0]>>)
    IN  [i \in 0..31 |-> result[i + 1]]

\* Variant of map_to_tiered_distribution: a roll equal to a threshold stays
\* in the tier below it
map_to_tiered_distribution_inclusive(random_bytes) ==
    LET tier_roll == U64LeMod(random_bytes, 0, PROB_PRECISION)
        tier == IF tier_roll <= TIER1_THRESHOLD THEN <<TIER1_MIN_USD, TIER1_STEPS>>
                ELSE IF tier_roll <= TIER2_THRESHOLD THEN <<TIER2_MIN_USD, TIER2_STEPS>>
                ELSE IF tier_roll <= TIER3_THRESHOLD THEN <<TIER3_MIN_USD, TIER3_STEPS>>
                ELSE <<TIER4_MIN_USD, TIER4_STEPS>>
        idx == U64LeMod(random_bytes, 8, tier[2])
    IN  tier[1] + idx * REWARD_STEP

\* Variant of map_to_tiered_distribution: the last step of a tier is never
\* taken
map_to_tiered_distribution_short(random_bytes) ==
    LET tier_roll == U64LeMod(random_bytes, 0, PROB_PRECISION)
        tier == IF tier_roll < TIER1_THRESHOLD THEN <<TIER1_MIN_USD, TIER1_STEPS>>
                ELSE IF tier_roll < TIER2_THRESHOLD THEN <<TIER2_MIN_USD, TIER2_STEPS>>
                ELSE IF tier_roll < TIER3_THRESHOLD THEN <<TIER3_MIN_USD, TIER3_STEPS>>
                ELSE <<TIER4_MIN_USD, TIER4_STEPS>>
        idx == U64LeMod(random_bytes, 8, tier[2] - 1)
    IN  tier[1] + idx * REWARD_STEP

map_to_tiered_distribution(random_bytes) ==
    LET tier_roll == U64LeMod(random_bytes, 0, PROB_PRECISION)
        tier == IF tier_roll < TIER1_THRESHOLD THEN <<TIER1_MIN_USD, TIER1_STEPS>>
                ELSE IF tier_roll < TIER2_THRESHOLD THEN <<TIER2_MIN_USD, TIER2_STEPS>>
                ELSE IF tier_roll < TIER3_THRESHOLD THEN <<TIER3_MIN_USD, TIER3_STEPS>>
                ELSE <<TIER4_MIN_USD, TIER4_STEPS>>
        idx == U64LeMod(random_bytes, 8, tier[2])
    IN  tier[1] + idx * REWARD_STEP

\* Variant of select_active_prize_pool: the position is returned, not the
\* identifier the list holds there
select_active_position(random_bytes, active_pool_count, active_pool_indices) ==
    IF active_pool_count = 0 THEN 0
    ELSE U64LeMod(random_bytes, 8, active_pool_count)

\* Variant of select_active_prize_pool: the position is taken from bytes
\* 0..7, the ones the tier roll uses
select_active_from_tier_bytes(random_bytes, active_pool_count, active_pool_indices) ==
    IF active_pool_count = 0 THEN 0
    ELSE active_pool_indices[U64LeMod(random_bytes, 0, active_pool_count)]

select_active_prize_pool(random_bytes, active_pool_count, active_pool_indices) ==
    IF active_pool_count = 0 THEN 0
    ELSE active_pool_indices[U64LeMod(random_bytes, 8, active_pool_count)]

RECURSIVE SumRewards(_, _)
SumRewards(randomness, n) ==
    IF n = 0 THEN 0
    ELSE SumRewards(randomness, n - 1)
         + map_to_tiered_distribution(derive_random_result(randomness, n - 1))

process_vrf_result(randomness, amount_of_cards, active_pool_count, active_pool_indices) ==
    [total_won_usd |-> SumRewards(randomness, amount_of_cards),
     selected_pool_index |->
        IF active_pool_count > 0
        THEN select_active_prize_pool(randomness, active_pool_count, active_pool_indices)
        ELSE 0]

\* ---------------------------------------------------------------------
\* utils/pyth_oracle.rs, utils/jupiter_cpi.rs (pure parts)
\* ---------------------------------------------------------------------
Ok(v) == [ok |-> TRUE, val |-> v]
Err(e) == [ok |-> FALSE, err |-> e]

RECURSIVE Pow10(_)
Pow10(n) == IF n = 0 THEN 1 ELSE 10 * Pow10(n - 1)

Abs(x) == IF x < 0 THEN 0 - x ELSE x

\* A price update is the Pyth account the caller passes in: age is the
\* number of seconds between its publish time and the clock.
\* lamports = micro_usd * 10^9 * 10^|expo| / (price * 10^6); the common
\* factor 10^6 is cancelled before the division so that the quotient is
\* evaluated by MulDivFloor.
get_lamports_for_micro_usd(price_update, micro_usd_amount) ==
    IF price_update.age > MAX_PRICE_AGE_SECONDS THEN Err("PythPriceStale")
    ELSE IF ~(price_update.price > 0) THEN Err("PythPriceInvalid")
    ELSE Ok(MulDivFloor(micro_usd_amount,
                        1000 * Pow10(Abs(price_update.exponent)),
                        price_update.price))

get_lamports_for_usd(price_update, usd_amount) ==
    get_lamports_for_micro_usd(price_update, usd_amount * USD_PRECISION)

\* get_lamports_for_micro_usd over the whole of its domain: the amount and
\* the magnitude of the price are decimal numbers, price_update.negative is
\* the sign of the price
get_lamports_for_micro_usd_u128(price_update, micro_usd_amount) ==
    IF price_update.age > MAX_PRICE_AGE_SECONDS THEN Err("PythPriceStale")
    ELSE IF ~(~price_update.negative /\ price_update.price # << >>)
         THEN Err("PythPriceInvalid")
    ELSE
    LET expo == Abs(price_update.exponent)
        scale_factor == checked_mul_pow10(<<1>>, expo)
        sol_scale == checked_mul_pow10(<<1>>, SOL_DECIMALS)
    IN  IF scale_factor = << >> \/ sol_scale = << >> THEN Err("MathOverflow")
        ELSE
        LET scaled == checked_mul_pow10(micro_usd_amount, SOL_DECIMALS)
        IN  IF scaled = << >> THEN Err("MathOverflow")
            ELSE
            LET numerator == checked_mul_pow10(scaled[1], expo)
                denominator == checked_mul_pow10(price_update.price, Log10(USD_PRECISION))
            IN  IF numerator = << >> \/ denominator = << >> THEN Err("MathOverflow")
                ELSE IF denominator[1] = << >> THEN Err("MathOverflow")
                ELSE Ok(as_u64(DecDivMod(numerator[1], denominator[1]).q))

\* get_lamports_for_usd over the whole of its domain.  usd_amount *
\* USD_PRECISION is an unchecked u64 product: built with overflow checks it
\* panics when it does not fit, built without them it wraps
get_lamports_for_usd_u64(price_update, usd_amount, overflow_checks) ==
    LET product == MulPow10(usd_amount, Log10(USD_PRECISION))
    IN  IF DecLeq(product, U64_MAX_DEC)
        THEN get_lamports_for_micro_usd_u128(price_update, product)
        ELSE IF overflow_checks THEN Err("Panic")
        ELSE get_lamports_for_micro_usd_u128(price_update, as_u64(product))

calculate_min_output(expected_output, slippage_bps) ==
    Ok(MulDivFloor(expected_output, 10000 - slippage_bps, 10000))

\* calculate_min_output over the whole of u64 (expected_output in limbs):
\* the product is checked, then the quotient
calculate_min_output_u64(expected_output, slippage_bps) ==
    LET product == checked_mul(expected_output, 10000 - slippage_bps)
    IN  IF product = << >> THEN Err("MathOverflow")
        ELSE LET quotient == checked_div(product[1], 10000)
             IN  IF quotient = << >> THEN Err("MathOverflow") ELSE Ok(quotient[1])

JUPITER_ROUTE_DISCRIMINATOR == <<229, 100, 247, 91, 30, 192, 179, 237>>
JUPITER_SHARED_ACCOUNTS_ROUTE_DISCRIMINATOR == <<193, 32, 155, 51, 65, 214, 156, 129>>
JUPITER_EXACT_OUT_ROUTE_DISCRIMINATOR == <<208, 51, 239, 151, 123, 43, 237, 92>>

\* ---------------------------------------------------------------------
\* Identities and addresses
\* ---------------------------------------------------------------------
Users == {"alice", "bob"}
ADMIN == "admin"
VRF_PROGRAM_IDENTITY == "vrf_program_identity"
Signers == Users \cup {ADMIN, VRF_PROGRAM_IDENTITY}
ORACLE_QUEUE_DEVNET == "oracle_queue_devnet"
JUPITER_PROGRAM_ID == "jupiter_v6"
RAYDIUM_CP_SWAP_PROGRAM == "raydium_cpmm"
RAYDIUM_CP_SWAP_PROGRAM_DEVNET == "raydium_cpmm_devnet"

\* Address of the MintRequest PDA: seeds ["mint_request", user, slot]
MintRequestPda(user, slot) == <<user, slot>>

\* ---------------------------------------------------------------------
\* state/global_config.rs, instructions/admin
\* ---------------------------------------------------------------------
InitializeConfig(admin, platform_fee_bps) ==
    [admin |-> admin,
     platform_fee_bps |-> platform_fee_bps,
     is_paused |-> FALSE,
     pool_count |-> 0,
     prize_pool_count |-> 0,
     active_pool_count |-> 0,
     active_pool_indices |-> [i \in 0..(MAX_PRIZE_POOLS - 1) |-> EMPTY_SLOT],
     total_collected |-> 0,
     oracle_queue |-> ORACLE_QUEUE_DEVNET,
     request_timeout_seconds |-> REQUEST_TIMEOUT_SECONDS]

\* close_config: the data is zero-filled and the lamports are taken out, the
\* runtime purges the account when the transaction ends. No instruction
\* that loads the configuration record accepts it until initialize runs
\* again
ClosedConfig ==
    [admin |-> "default",
     platform_fee_bps |-> 0,
     is_paused |-> FALSE,
     pool_count |-> 0,
     prize_pool_count |-> 0,
     active_pool_count |-> 0,
     active_pool_indices |-> [i \in 0..(MAX_PRIZE_POOLS - 1) |-> 0],
     total_collected |-> 0,
     oracle_queue |-> "default",
     request_timeout_seconds |-> 0]

ConfigInitialized(cfg) == cfg # ClosedConfig

\* migrate_config on the configuration record (the administrator check
\* passed): the counter is overwritten with the argument, the active list is
\* kept when it is not empty
MigrateConfigState(cfg, prize_pool_count) ==
    LET prev_active_count == cfg.active_pool_count
        prev_active_indices == cfg.active_pool_indices
    IN  [cfg EXCEPT !.prize_pool_count = prize_pool_count,
                    !.active_pool_count = IF prev_active_count > 0 THEN prev_active_count ELSE 0,
                    !.active_pool_indices =
                        IF prev_active_count > 0 THEN prev_active_indices
                        ELSE [i \in 0..(MAX_PRIZE_POOLS - 1) |-> EMPTY_SLOT],
                    !.oracle_queue = IF @ = "default" THEN ORACLE_QUEUE_DEVNET ELSE @,
                    !.request_timeout_seconds = IF @ = 0 THEN REQUEST_TIMEOUT_SECONDS ELSE @]

\* add_prize_pool on the configuration record (the capacity check passed).
\* prize_pool_count is a u8: += 1 at 255 wraps to 0 in a build without
\* overflow checks; a build with them panics there (see AddPrizePoolOutcome)
AddPrizePoolConfig(cfg) ==
    [cfg EXCEPT !.active_pool_indices[cfg.active_pool_count] = cfg.prize_pool_count,
                !.active_pool_count = @ + 1,
                !.prize_pool_count = (@ + 1) % (U8_MAX + 1)]

\* Variant of RemovePrizePoolConfig: the last active entry is moved into the
\* vacated position
RemovePrizePoolConfigSwap(cfg, index) ==
    LET pos == CHOOSE i \in 0..(cfg.active_pool_count - 1) :
                  /\ cfg.active_pool_indices[i] = index
                  /\ \A j \in 0..(i - 1) : cfg.active_pool_indices[j] # index
        last_active == cfg.active_pool_count - 1
    IN  [cfg EXCEPT !.active_pool_indices =
                        [i \in 0..(MAX_PRIZE_POOLS - 1) |->
                            IF i = last_active THEN EMPTY_SLOT
                            ELSE IF i = pos THEN @[last_active]
                            ELSE @[i]],
                    !.active_pool_count = @ - 1]

\* remove_prize_pool on the configuration record, pos the position found
\* by the linear scan
RemovePrizePoolConfig(cfg, index) ==
    LET pos == CHOOSE i \in 0..(cfg.active_pool_count - 1) :
                  /\ cfg.active_pool_indices[i] = index
                  /\ \A j \in 0..(i - 1) : cfg.active_pool_indices[j] # index
        last_active == cfg.active_pool_count - 1
    IN  [cfg EXCEPT !.active_pool_indices =
                        [i \in 0..(MAX_PRIZE_POOLS - 1) |->
                            IF i >= pos /\ i < last_active THEN @[i + 1]
                            ELSE IF i = last_active THEN EMPTY_SLOT
                            ELSE @[i]],
                    !.active_pool_count = @ - 1]

\* ---------------------------------------------------------------------
\* Inputs the environment supplies
\* ---------------------------------------------------------------------
\* 32 bytes of randomness, given by its leading bytes (the rest are zero)
Entropy(prefix) == [i \in 0..31 |-> IF i < Len(prefix) THEN prefix[i + 1] ELSE 0]

\* The callback's randomness: all zero (every card then draws from its
\* index alone), and one with non-zero tier and step bytes
Entropies == {Entropy(<<>>), Entropy(<<63, 66, 15, 0, 0, 0, 0, 0, 243, 1>>)}

\* Pyth price accounts: fresh at 1000 USD, fresh at 1500.0 USD (exponent -1),
\* older than the staleness bound, non-positive price
FreshPrice == [price |-> 1000, exponent |-> 0, age |-> 0]
PriceUpdates ==
    {FreshPrice,
     [price |-> 15000, exponent |-> -1, age |-> MAX_PRICE_AGE_SECONDS],
     [price |-> 1000, exponent |-> 0, age |-> MAX_PRICE_AGE_SECONDS + 1],
     [price |-> 0, exponent |-> 0, age |-> 0]}

\* The optional USDT accounts of request_mint and refund
ValidTokenAccounts ==
    [present |-> TRUE, usdt_mint_ok |-> TRUE, user_owner_ok |-> TRUE,
     user_mint_ok |-> TRUE, vault_mint_ok |-> TRUE, vault_owner_ok |-> TRUE,
     distinct |-> TRUE]
TokenAccountInputs ==
    {ValidTokenAccounts,
     [ValidTokenAccounts EXCEPT !.present = FALSE],
     [ValidTokenAccounts EXCEPT !.user_owner_ok = FALSE],
     [ValidTokenAccounts EXCEPT !.vault_mint_ok = FALSE]}

\* remaining_accounts of a Token claim: how many there are, the program at
\* position 0, the vault-owned WSOL token accounts among them, and the
\* liquidity pool among them that the swap goes through
JupiterAccounts ==
    [len |-> 3, program |-> JUPITER_PROGRAM_ID, vault_wsol_accounts |-> 1,
     vault_wsol_writable |-> TRUE, wsol_is_output |-> FALSE, swap_pool |-> "pool_a"]
RaydiumAccounts ==
    [len |-> RAYDIUM_SWAP_ACCOUNTS_COUNT, program |-> RAYDIUM_CP_SWAP_PROGRAM,
     vault_wsol_accounts |-> 1, vault_wsol_writable |-> TRUE, wsol_is_output |-> FALSE,
     swap_pool |-> "pool_a"]
RemainingAccountInputs ==
    {JupiterAccounts,
     RaydiumAccounts,
     [JupiterAccounts EXCEPT !.swap_pool = "pool_b"],
     [RaydiumAccounts EXCEPT !.swap_pool = "pool_b"],
     [RaydiumAccounts EXCEPT !.program = RAYDIUM_CP_SWAP_PROGRAM_DEVNET],
     [JupiterAccounts EXCEPT !.len = 0],
     [JupiterAccounts EXCEPT !.len = 2],
     [JupiterAccounts EXCEPT !.program = "unknown_program"],
     [RaydiumAccounts EXCEPT !.program = "unknown_program"],
     [JupiterAccounts EXCEPT !.vault_wsol_accounts = 0]}

\* Option<T>
None == << >>
Some(x) == <<x>>
IsSome(o) == o # None
Unwrap(o) == o[1]

SwapDataInputs ==
    {None,
     Some(<<229, 100, 247>>),
     Some(<<1, 2, 3, 4, 5, 6, 7, 8>>),
     Some(JUPITER_ROUTE_DISCRIMINATOR \o <<0>>)}
ExpectedOutputInputs == {None, Some(1000)}
PayoutModes == {"SOL", "Token"}
PaymentModes == {"SOL", "USDT"}
SwapRouters == {"Jupiter", "Raydium"}
SwapRouterInputs == {None} \cup {Some(r) : r \in SwapRouters}

\* The vault starts with the rent reserve plus the lamports that pay the
\* largest single-card reward at the fresh price; its WSOL account holds
\* as much
VaultFunding ==
    get_lamports_for_micro_usd(FreshPrice, TIER4_MIN_USD + (TIER4_STEPS - 1) * REWARD_STEP).val
WsolFunding == VaultFunding

\* Instants the clock is sampled at: the start, the refund timeout and the
\* second after it, the last second of the claim window and its end
TimePoints ==
    {0, REQUEST_TIMEOUT_SECONDS, REQUEST_TIMEOUT_SECONDS + 1,
     CLAIM_TIMEOUT_SECONDS - 1, CLAIM_TIMEOUT_SECONDS}

\* ---------------------------------------------------------------------
\* State
\* ---------------------------------------------------------------------
VARIABLES
    clock,        \* Clock sysvar: unix_timestamp, slot
    config,       \* IPFlowState account
    requests,     \* MintRequest accounts that exist, by PDA address
    vault,        \* lamports of the vault PDA
    vault_token,  \* amount of the vault's USDT token account
    vault_wsol,   \* amount of the vault's WSOL token account
    pc,           \* position of the claim handler in progress
    frame,        \* loaded accounts and locals of the claim in progress
    result,       \* outcome of the last instruction
    history,      \* per address: records created there, and for the latest of
                  \* them the reveals, claims and refunds that returned Ok
    prize_pools,  \* PrizePoolAccount accounts that exist, by index (their PDA seed)
    assigned,     \* per identifier: pools that were created with it
    admin_ops,    \* administrative instructions that returned Ok
    calc,         \* arguments, locals and return value of the helper function
                  \* under evaluation
    user_token    \* amount of the participant's token account a swap pays into

vars ==
    <<clock, config, requests, vault, vault_token, vault_wsol, pc, frame, result, history,
      prize_pools, assigned, admin_ops, calc, user_token>>

NoKey == << >>
NoSigner == "none"
NoFrame == [key |-> NoKey]
NoCalc == [fn |-> "none"]

\* Outcome of the last instruction that changed an account or got as far
\* as invoking another program: its result code, the status of the
\* handler's copy of the MintRequest when it returned, and the
\* ClaimCompleted event if it emitted one
Outcome(op, key, signer, code, status, event) ==
    [op |-> op, key |-> key, signer |-> signer, code |-> code, status |-> status,
     event |-> event]

StatusOf(key) == IF key \in DOMAIN requests THEN requests[key].status ELSE "NoAccount"

\* Variant of Close: the account is not closed when the instruction exits
KeepOpen(accounts, key) == accounts

\* Variant of Put: the record is written to every account of the map
PutShared(accounts, key, rec) == [k \in DOMAIN accounts \cup {key} |-> rec]

Put(accounts, key, rec) == [k \in DOMAIN accounts \cup {key} |-> IF k = key THEN rec ELSE accounts[k]]
Close(accounts, key) == [k \in DOMAIN accounts \ {key} |-> accounts[k]]

\* The deployment the lifecycle starts from: initialize, three pools
\* added, the pool with index 1 removed again
DeployedConfig ==
    RemovePrizePoolConfig(
        AddPrizePoolConfig(AddPrizePoolConfig(AddPrizePoolConfig(InitializeConfig(ADMIN, 500)))),
        1)

\* ---------------------------------------------------------------------
\* The prize pool registry: the configuration record, the PrizePoolAccount
\* accounts and, per identifier, the number of pools created with it
\* ---------------------------------------------------------------------
PoolTypes == {"RaydiumCPMM", "RaydiumAMM", "Jupiter", "Orca"}

\* add_prize_pool: the fields of the new PrizePoolAccount
NewPrizePool(index, swap_pool, pool_type, name) ==
    [index |-> index, swap_pool |-> swap_pool, pool_type |-> pool_type, name |-> name]

NoneAssigned == [i \in 0..U8_MAX |-> 0]

\* After initialize by ADMIN
FreshRegistry ==
    [config |-> InitializeConfig(ADMIN, 500), prize_pools |-> << >>, assigned |-> NoneAssigned]

\* A successful add_prize_pool: the account is created at the address
\* derived from prize_pool_count, the configuration is updated
AddPool(reg, swap_pool, pool_type, name) ==
    LET index == reg.config.prize_pool_count
    IN  [config |-> AddPrizePoolConfig(reg.config),
         prize_pools |-> Put(reg.prize_pools, index,
                             NewPrizePool(index, swap_pool, pool_type, name)),
         assigned |-> [reg.assigned EXCEPT ![index] = @ + 1]]

\* A successful remove_prize_pool: the configuration is updated and the
\* account is closed (close = admin)
RemovePool(reg, index) ==
    [config |-> RemovePrizePoolConfig(reg.config, index),
     prize_pools |-> Close(reg.prize_pools, index),
     assigned |-> reg.assigned]

\* n pools added one after the other (the list not past its capacity, the
\* counter not past 255): they take the identifiers the counter runs
\* through and the next n positions of the list
AddPools(reg, n) ==
    LET first == reg.config.prize_pool_count
        count == reg.config.active_pool_count
        added == first..(first + n - 1)
    IN  [config |-> [reg.config EXCEPT
                        !.active_pool_indices =
                            [i \in 0..(MAX_PRIZE_POOLS - 1) |->
                                IF i >= count /\ i < count + n THEN first + (i - count)
                                ELSE reg.config.active_pool_indices[i]],
                        !.active_pool_count = count + n,
                        !.prize_pool_count = first + n],
         prize_pools |-> [k \in DOMAIN reg.prize_pools \cup added |->
                             IF k \in added THEN NewPrizePool(k, "pool_a", "RaydiumCPMM", "USDT")
                             ELSE reg.prize_pools[k]],
         assigned |-> [i \in 0..U8_MAX |->
                          IF i \in added THEN reg.assigned[i] + 1 ELSE reg.assigned[i]]]

\* n times: a pool is added and removed again. Each round takes the
\* identifier the counter shows, puts it at the end of the list and takes it
\* out again, and closes the account: after n rounds (the counter not past
\* 255) the list and the accounts are as before, the counter is n higher
\* and each identifier in between was assigned once more
ChurnPools(reg, n) ==
    LET first == reg.config.prize_pool_count
    IN  [config |-> [reg.config EXCEPT !.prize_pool_count = first + n],
         prize_pools |-> reg.prize_pools,
         assigned |-> [i \in 0..U8_MAX |->
                          IF i >= first /\ i < first + n THEN reg.assigned[i] + 1
                          ELSE reg.assigned[i]]]

\* The registry of the deployment the lifecycle starts from
DeployedRegistry == RemovePool(AddPools(FreshRegistry, 3), 1)

\* One pool short of capacity
NearCapacityRegistry == AddPools(FreshRegistry, MAX_PRIZE_POOLS - 1)

\* 254 pools added and removed, one more added: the next identifier is 255
LateRegistry == AddPools(ChurnPools(FreshRegistry, U8_MAX - 1), 1)

\* Registries the administration starts from
StartRegistries == {FreshRegistry, NearCapacityRegistry, LateRegistry}

Init ==
    /\ clock = [unix_timestamp |-> 0, slot |-> 0]
    /\ config = DeployedConfig
    /\ requests = << >>
    /\ vault = MIN_RENT + VaultFunding
    /\ vault_token = 0
    /\ vault_wsol = WsolFunding
    /\ pc = "idle"
    /\ frame = NoFrame
    /\ result = Outcome("initialize", NoKey, ADMIN, "Ok", "NoAccount", None)
    /\ history = << >>
    /\ prize_pools = DeployedRegistry.prize_pools
    /\ assigned = DeployedRegistry.assigned
    /\ admin_ops = 0
    /\ calc = NoCalc
    /\ user_token = 0

\* An instruction that returns Err is rolled back by the runtime: no
\* account changes
Rejected(op, key, signer, code, status) ==
    /\ result' = Outcome(op, key, signer, code, status, None)
    /\ pc' = "idle"
    /\ frame' = NoFrame
    /\ UNCHANGED <<clock, config, prize_pools, assigned, admin_ops, calc, user_token, requests, vault, vault_token, vault_wsol, history>>

\* ---------------------------------------------------------------------
\* Clock: time moves to a later sampled instant; the slot advances by
\* SLOT_TOLERANCE per second, so that at every instant after the first
\* the oldest acceptable request slot is a slot of an earlier instant
\* ---------------------------------------------------------------------
Tick ==
    /\ pc = "idle"
    /\ \E t \in TimePoints :
          /\ t > clock.unix_timestamp
          /\ clock' = [unix_timestamp |-> t, slot |-> t * SLOT_TOLERANCE]
    /\ result' = Outcome("tick", NoKey, NoSigner, "Ok", "NoAccount", None)
    /\ UNCHANGED <<config, prize_pools, assigned, admin_ops, calc, user_token, requests, vault, vault_token, vault_wsol, pc, frame, history>>

\* ---------------------------------------------------------------------
\* request_mint
\* ---------------------------------------------------------------------
RECURSIVE SumCreated(_)
SumCreated(keys) ==
    IF keys = {} THEN 0
    ELSE LET k == CHOOSE x \in keys : TRUE
         IN  history[k].created + SumCreated(keys \ {k})

\* Number of records created so far
Created == SumCreated(DOMAIN history)

\* Variant of NewMintRequest: the amount paid is not recorded
NewMintRequestUnpaid(user, amount_of_cards, payment_mode, paid_amount, request_slot) ==
    [user |-> user,
     randomness_account |-> "default",
     amount_of_cards |-> amount_of_cards,
     status |-> "Pending",
     payment_mode |-> payment_mode,
     total_won_usd |-> 0,
     paid_amount |-> 0,
     created_at |-> clock.unix_timestamp,
     revealed_at |-> 0,
     selected_pool_index |-> 0,
     commit_slot |-> request_slot,
     reveal_slot |-> 0,
     vrf_request_slot |-> request_slot]

\* Variant of NewMintRequest: the price in USD is recorded as the amount
\* paid
NewMintRequestPaidUsd(user, amount_of_cards, payment_mode, paid_amount, request_slot) ==
    [user |-> user,
     randomness_account |-> "default",
     amount_of_cards |-> amount_of_cards,
     status |-> "Pending",
     payment_mode |-> payment_mode,
     total_won_usd |-> 0,
     paid_amount |-> amount_of_cards * TARGET_USD_AMOUNT,
     created_at |-> clock.unix_timestamp,
     revealed_at |-> 0,
     selected_pool_index |-> 0,
     commit_slot |-> request_slot,
     reveal_slot |-> 0,
     vrf_request_slot |-> request_slot]

NewMintRequest(user, amount_of_cards, payment_mode, paid_amount, request_slot) ==
    [user |-> user,
     randomness_account |-> "default",
     amount_of_cards |-> amount_of_cards,
     status |-> "Pending",
     payment_mode |-> payment_mode,
     total_won_usd |-> 0,
     paid_amount |-> paid_amount,
     created_at |-> clock.unix_timestamp,
     revealed_at |-> 0,
     selected_pool_index |-> 0,
     commit_slot |-> request_slot,
     reveal_slot |-> 0,
     vrf_request_slot |-> request_slot]

\* First failing check of the USDT payment path, or "Ok"
UsdtPaymentCheck(accts) ==
    IF ~accts.present THEN "MissingUsdtAccounts"
    ELSE IF ~accts.usdt_mint_ok THEN "InvalidUsdtMint"
    ELSE IF ~accts.user_owner_ok \/ ~accts.user_mint_ok THEN "InvalidTokenAccount"
    ELSE IF ~accts.vault_mint_ok \/ ~accts.vault_owner_ok \/ ~accts.distinct
         THEN "InvalidTokenAccount"
    ELSE "Ok"

\* Variant of RequestMintOutcome: the number of cards has no upper limit
RequestMintOutcomeNoLimit(user, amount_of_cards, payment_mode, request_slot, oracle_queue, price_update, accts, cpi_ok) ==
    LET key == MintRequestPda(user, request_slot)
        current_slot == clock.slot
        lamports == get_lamports_for_usd(price_update, amount_of_cards * TARGET_USD_AMOUNT)
    IN
    IF ~ConfigInitialized(config) THEN "AccountNotInitialized"
    ELSE IF config.is_paused THEN "ProgramPaused"
    ELSE IF key \in DOMAIN requests THEN "AccountAlreadyInUse"
    ELSE IF ~(amount_of_cards > 0) THEN "InvalidCardAmount"
    ELSE IF ~(/\ (IF current_slot > SLOT_TOLERANCE THEN current_slot - SLOT_TOLERANCE ELSE 0)
                     <= request_slot
              /\ request_slot <= current_slot)
         THEN "InvalidSlot"
    ELSE IF oracle_queue # config.oracle_queue THEN "InvalidOracleQueue"
    ELSE IF payment_mode = "SOL" /\ ~lamports.ok THEN lamports.err
    ELSE IF payment_mode = "USDT" /\ UsdtPaymentCheck(accts) # "Ok"
         THEN UsdtPaymentCheck(accts)
    ELSE IF ~cpi_ok THEN "CpiError"
    ELSE "Ok"

\* lib.rs RequestMint constraints, then the handler: the first failing
\* check, or "Ok"
RequestMintOutcome(user, amount_of_cards, payment_mode, request_slot, oracle_queue, price_update, accts, cpi_ok) ==
    LET key == MintRequestPda(user, request_slot)
        current_slot == clock.slot
        lamports == get_lamports_for_usd(price_update, amount_of_cards * TARGET_USD_AMOUNT)
    IN
    IF ~ConfigInitialized(config) THEN "AccountNotInitialized"
    ELSE IF config.is_paused THEN "ProgramPaused"
    ELSE IF key \in DOMAIN requests THEN "AccountAlreadyInUse"
    ELSE IF ~(amount_of_cards > 0 /\ amount_of_cards <= 100) THEN "InvalidCardAmount"
    ELSE IF ~(/\ (IF current_slot > SLOT_TOLERANCE THEN current_slot - SLOT_TOLERANCE ELSE 0)
                     <= request_slot
              /\ request_slot <= current_slot)
         THEN "InvalidSlot"
    ELSE IF oracle_queue # config.oracle_queue THEN "InvalidOracleQueue"
    ELSE IF payment_mode = "SOL" /\ ~lamports.ok THEN lamports.err
    ELSE IF payment_mode = "USDT" /\ UsdtPaymentCheck(accts) # "Ok"
         THEN UsdtPaymentCheck(accts)
    ELSE IF ~cpi_ok THEN "CpiError"
    ELSE "Ok"

RequestMint(user, amount_of_cards, payment_mode, request_slot, oracle_queue, price_update, accts, cpi_ok) ==
    LET key == MintRequestPda(user, request_slot)
        lamports == get_lamports_for_usd(price_update, amount_of_cards * TARGET_USD_AMOUNT)
        total_usdt == amount_of_cards * TARGET_USD_AMOUNT * Pow10(USDT_DECIMALS)
        paid_amount == IF payment_mode = "SOL" THEN lamports.val ELSE total_usdt
    IN
    /\ pc = "idle"
    /\ Created < MaxRequests
    /\ RequestMintOutcome(user, amount_of_cards, payment_mode, request_slot, oracle_queue,
                          price_update, accts, cpi_ok) = "Ok"
    /\ requests' = Put(requests, key,
            NewMintRequest(user, amount_of_cards, payment_mode, paid_amount, request_slot))
    /\ vault' = IF payment_mode = "SOL" THEN vault + paid_amount ELSE vault
    /\ vault_token' = IF payment_mode = "USDT" THEN vault_token + paid_amount
                      ELSE vault_token
    /\ history' = Put(history, key,
            [created |-> (IF key \in DOMAIN history THEN history[key].created ELSE 0) + 1,
             revealed |-> 0, claimed |-> 0, refunded |-> 0])
    /\ result' = Outcome("request_mint", key, user, "Ok", "Pending", None)
    /\ UNCHANGED <<clock, config, prize_pools, assigned, admin_ops, calc, user_token, vault_wsol, pc, frame>>

RequestSlotInputs ==
    {s \in {clock.slot - SLOT_TOLERANCE - 1, clock.slot - SLOT_TOLERANCE,
            clock.slot, clock.slot + 1} : s >= 0}

\* Inputs of request_mint: the well-formed calls, and calls that differ
\* from a well-formed one in a single argument or account
RequestMintBase(user) ==
    [user |-> user, amount_of_cards |-> 1, payment_mode |-> "SOL",
     request_slot |-> clock.slot, oracle_queue |-> ORACLE_QUEUE_DEVNET,
     price_update |-> FreshPrice, accts |-> ValidTokenAccounts, cpi_ok |-> TRUE]

RequestMintInputs ==
    UNION {
        {[RequestMintBase(user) EXCEPT !.amount_of_cards = n, !.payment_mode = m] :
            n \in (0..MaxCards) \cup {101}, m \in PaymentModes}
        \cup {[RequestMintBase(user) EXCEPT !.request_slot = s] : s \in RequestSlotInputs}
        \cup {[RequestMintBase(user) EXCEPT !.price_update = p] : p \in PriceUpdates}
        \cup {[RequestMintBase(user) EXCEPT !.payment_mode = "USDT", !.accts = a] :
                a \in TokenAccountInputs}
        \cup {[RequestMintBase(user) EXCEPT !.oracle_queue = "other_queue"],
              [RequestMintBase(user) EXCEPT !.cpi_ok = FALSE]}
        : user \in Users}

RequestMintStep ==
    \E in \in RequestMintInputs :
        RequestMint(in.user, in.amount_of_cards, in.payment_mode, in.request_slot,
                    in.oracle_queue, in.price_update, in.accts, in.cpi_ok)

\* ---------------------------------------------------------------------
\* consume_lottery_randomness
\* ---------------------------------------------------------------------
\* Variant of ConsumeLotteryRandomnessAccounts: the address constraint on
\* the signer is missing
ConsumeLotteryRandomnessAccountsAnySigner(signer, key) ==
    IF key \notin DOMAIN requests THEN "AccountNotInitialized"
    ELSE IF requests[key].status # "Pending" THEN "InvalidRequestStatus"
    ELSE IF ~ConfigInitialized(config) THEN "AccountNotInitialized"
    ELSE "Ok"

\* lib.rs ConsumeLotteryRandomness: first failing account constraint, or "Ok"
ConsumeLotteryRandomnessAccounts(signer, key) ==
    IF signer # VRF_PROGRAM_IDENTITY THEN "ConstraintAddress"
    ELSE IF key \notin DOMAIN requests THEN "AccountNotInitialized"
    ELSE IF requests[key].status # "Pending" THEN "InvalidRequestStatus"
    ELSE IF ~ConfigInitialized(config) THEN "AccountNotInitialized"
    ELSE "Ok"

\* Variant of the handler: the time of the reveal is mixed into the
\* randomness
ConsumeRandomnessHandlerTimed(mint_request, randomness) ==
    IF mint_request.status = "Revealed" THEN Ok(mint_request)
    ELSE IF mint_request.status # "Pending" THEN Err("InvalidRequestStatus")
    ELSE LET mixed == [i \in 0..31 |-> Xor8(randomness[i], clock.unix_timestamp % 256)]
             res == process_vrf_result(mixed, mint_request.amount_of_cards,
                                       config.active_pool_count, config.active_pool_indices)
         IN  Ok([mint_request EXCEPT !.status = "Revealed",
                                     !.total_won_usd = res.total_won_usd,
                                     !.selected_pool_index = res.selected_pool_index,
                                     !.revealed_at = clock.unix_timestamp,
                                     !.reveal_slot = clock.slot])

\* The handler on the loaded record: the record to write back, or the error
ConsumeRandomnessHandler(mint_request, randomness) ==
    IF mint_request.status = "Revealed" THEN Ok(mint_request)
    ELSE IF mint_request.status # "Pending" THEN Err("InvalidRequestStatus")
    ELSE LET res == process_vrf_result(randomness, mint_request.amount_of_cards,
                                       config.active_pool_count, config.active_pool_indices)
         IN  Ok([mint_request EXCEPT !.status = "Revealed",
                                     !.total_won_usd = res.total_won_usd,
                                     !.selected_pool_index = res.selected_pool_index,
                                     !.revealed_at = clock.unix_timestamp,
                                     !.reveal_slot = clock.slot])

\* The account constraints, then the handler
ConsumeLotteryRandomnessOutcome(signer, key, randomness) ==
    LET accounts == ConsumeLotteryRandomnessAccounts(signer, key)
    IN  IF accounts # "Ok" THEN Err(accounts)
        ELSE ConsumeRandomnessHandler(requests[key], randomness)

ConsumeLotteryRandomness(signer, key, randomness) ==
    LET res == ConsumeLotteryRandomnessOutcome(signer, key, randomness)
    IN
    /\ pc = "idle"
    /\ res.ok
    /\ requests' = Put(requests, key, res.val)
    /\ history' = [history EXCEPT ![key].revealed = @ + 1]
    /\ result' = Outcome("consume_lottery_randomness", key, signer, "Ok", res.val.status, None)
    /\ UNCHANGED <<clock, config, prize_pools, assigned, admin_ops, calc, user_token, vault, vault_token, vault_wsol, pc, frame>>

ConsumeLotteryRandomnessStep ==
    \E signer \in Signers, key \in DOMAIN history, randomness \in Entropies :
        ConsumeLotteryRandomness(signer, key, randomness)

\* ---------------------------------------------------------------------
\* claim
\* ---------------------------------------------------------------------
\* lib.rs Claim: constraint = mint_request.status == RequestStatus::Revealed
ClaimStatusConstraint(mint_request) == mint_request.status = "Revealed"

\* Variant of ClaimAccounts: the status constraint is missing
ClaimAccountsNoStatus(signer, key, vrf_request_slot) ==
    IF key \notin DOMAIN requests THEN "AccountNotInitialized"
    ELSE IF key # MintRequestPda(signer, vrf_request_slot) THEN "ConstraintSeeds"
    ELSE IF requests[key].user # signer THEN "Unauthorized"
    ELSE IF requests[key].vrf_request_slot # vrf_request_slot THEN "InvalidRequestStatus"
    ELSE "Ok"

\* Variant of ClaimAccounts: the seeds take the user stored in the record
\* and has_one = user is missing
ClaimAccountsAnySigner(signer, key, vrf_request_slot) ==
    IF key \notin DOMAIN requests THEN "AccountNotInitialized"
    ELSE IF key # MintRequestPda(requests[key].user, vrf_request_slot) THEN "ConstraintSeeds"
    ELSE IF ~ClaimStatusConstraint(requests[key]) THEN "InvalidRequestStatus"
    ELSE IF requests[key].vrf_request_slot # vrf_request_slot THEN "InvalidRequestStatus"
    ELSE "Ok"

\* lib.rs Claim: first failing account constraint, or "Ok"
ClaimAccounts(signer, key, vrf_request_slot) ==
    IF key \notin DOMAIN requests THEN "AccountNotInitialized"
    ELSE IF key # MintRequestPda(signer, vrf_request_slot) THEN "ConstraintSeeds"
    ELSE IF requests[key].user # signer THEN "Unauthorized"
    ELSE IF ~ClaimStatusConstraint(requests[key]) THEN "InvalidRequestStatus"
    ELSE IF requests[key].vrf_request_slot # vrf_request_slot THEN "InvalidRequestStatus"
    ELSE "Ok"

\* Variant of ClaimWindowOpen: the comparison is <=
ClaimWindowOpenInclusive(request) ==
    clock.unix_timestamp - request.revealed_at <= CLAIM_TIMEOUT_SECONDS

ClaimWindowOpen(request) ==
    clock.unix_timestamp - request.revealed_at < CLAIM_TIMEOUT_SECONDS

\* Variant of SolPayoutUsd: the whole reward is paid
SolPayoutFull(request) == request.total_won_usd

SolPayoutUsd(request) == MulDivFloor(request.total_won_usd, SOL_PAYOUT_PERCENT, 100)

TokenPayoutUsd(request) == request.total_won_usd

\* Variant of MarkClaimed: the status is not written before the invocation
NotMarked(request) == request

\* The handler's status write (claim.rs, "Effects before Interactions")
MarkClaimed(request) == [request EXCEPT !.status = "Claimed"]

\* swap_via_jupiter up to the invocation: first failing check, or "Ok"
\* Variant of JupiterPreChecks: the payload is checked for its length
\* alone
JupiterPreChecksAnyTag(swap_data, remaining) ==
    IF ~(Len(swap_data) >= 8) THEN "InvalidSwapData"
    ELSE IF remaining.vault_wsol_accounts >= 1 /\ ~remaining.vault_wsol_writable
         THEN "InvalidTokenAccount"
    ELSE IF remaining.vault_wsol_accounts >= 2 THEN "InvalidTokenAccount"
    ELSE IF remaining.vault_wsol_accounts = 0 THEN "MissingSwapAccounts"
    ELSE IF remaining.wsol_is_output THEN "InvalidTokenAccount"
    ELSE IF ~(remaining.len >= 2) THEN "MissingSwapAccounts"
    ELSE IF remaining.program # JUPITER_PROGRAM_ID THEN "InvalidJupiterProgram"
    ELSE "Ok"

JupiterPreChecks(swap_data, remaining) ==
    LET discriminator == SubSeq(swap_data, 1, 8)
    IN  IF ~(Len(swap_data) >= 8) THEN "InvalidSwapData"
        ELSE IF ~(\/ discriminator = JUPITER_ROUTE_DISCRIMINATOR
                  \/ discriminator = JUPITER_SHARED_ACCOUNTS_ROUTE_DISCRIMINATOR
                  \/ discriminator = JUPITER_EXACT_OUT_ROUTE_DISCRIMINATOR)
             THEN "InvalidSwapData"
        ELSE IF remaining.vault_wsol_accounts >= 1 /\ ~remaining.vault_wsol_writable
             THEN "InvalidTokenAccount"
        ELSE IF remaining.vault_wsol_accounts >= 2 THEN "InvalidTokenAccount"
        ELSE IF remaining.vault_wsol_accounts = 0 THEN "MissingSwapAccounts"
        ELSE IF remaining.wsol_is_output THEN "InvalidTokenAccount"
        ELSE IF ~(remaining.len >= 2) THEN "MissingSwapAccounts"
        ELSE IF remaining.program # JUPITER_PROGRAM_ID THEN "InvalidJupiterProgram"
        ELSE "Ok"

IsRaydiumProgram(program) ==
    \/ program = RAYDIUM_CP_SWAP_PROGRAM
    \/ program = RAYDIUM_CP_SWAP_PROGRAM_DEVNET

\* Loaded accounts and locals of a claim that is about to invoke another program
ClaimFrame(signer, key, request, payout_mode, swap_router, program, swap_pool, price_update, payout_usd, amount, minimum_amount_out) ==
    [key |-> key,
     signer |-> signer,
     mint_request |-> request,
     payout_mode |-> payout_mode,
     swap_router |-> swap_router,
     program |-> program,
     swap_pool |-> swap_pool,
     price_update |-> price_update,
     payout_usd |-> payout_usd,
     amount |-> amount,
     minimum_amount_out |-> minimum_amount_out,
     vault |-> vault,
     vault_wsol |-> vault_wsol,
     user_token |-> user_token]

\* The handler returned Err while its copy of the record had this status
ErrAt(code, status) == [ok |-> FALSE, err |-> code, status |-> status]
Invoke(next_pc, fr) == [ok |-> TRUE, pc |-> next_pc, frame |-> fr]

\* Token claim between the status write and the first invocation of
\* another program (the venue for Jupiter, the wrap for Raydium)
ClaimRoute(signer, key, request, swap_router, swap_data, remaining, price_update, payout_usd, amount_in, minimum_amount_out) ==
    LET fr == ClaimFrame(signer, key, request, "Token", swap_router, remaining.program,
                         remaining.swap_pool,
                         price_update, payout_usd, amount_in, minimum_amount_out)
    IN  IF Unwrap(swap_router) = "Jupiter" THEN
            IF ~IsSome(swap_data) THEN ErrAt("MissingExpectedOutput", request.status)
            ELSE IF ~(remaining.len >= 3) THEN ErrAt("MissingSwapAccounts", request.status)
            ELSE IF JupiterPreChecks(Unwrap(swap_data), remaining) # "Ok"
                 THEN ErrAt("JupiterSwapFailed", request.status)
            ELSE Invoke("jupiter_swap", fr)
        ELSE
            IF ~(remaining.len >= RAYDIUM_SWAP_ACCOUNTS_COUNT)
            THEN ErrAt("MissingSwapAccounts", request.status)
            ELSE IF ~IsRaydiumProgram(remaining.program)
                 THEN ErrAt("InvalidRaydiumProgram", request.status)
            ELSE Invoke("wsol_wrap", fr)

\* claim from the account constraints up to the first invocation of
\* another program: the error returned, or the point reached
ClaimPrepare(signer, key, vrf_request_slot, payout_mode, swap_router, expected_token_output, swap_data, remaining, price_update) ==
    LET accounts == ClaimAccounts(signer, key, vrf_request_slot)
        request == requests[key]
    IN
    IF accounts # "Ok" THEN ErrAt(accounts, StatusOf(key))
    ELSE IF ~ClaimWindowOpen(request) THEN ErrAt("ClaimExpired", request.status)
    ELSE IF payout_mode = "SOL" THEN
        LET payout_usd == SolPayoutUsd(request)
            total_lamports == get_lamports_for_micro_usd(price_update, payout_usd)
            available == IF vault > MIN_RENT THEN vault - MIN_RENT ELSE 0
        IN  IF ~total_lamports.ok THEN ErrAt(total_lamports.err, request.status)
            ELSE IF ~(total_lamports.val <= available)
                 THEN ErrAt("InsufficientVaultBalance", request.status)
            ELSE Invoke("sol_transfer",
                        ClaimFrame(signer, key, MarkClaimed(request), payout_mode, None,
                                   "system_program", None, price_update, payout_usd,
                                   total_lamports.val, 0))
    ELSE
        IF ~IsSome(expected_token_output) THEN ErrAt("MissingExpectedOutput", request.status)
        ELSE IF ~IsSome(swap_router) THEN ErrAt("InvalidChoice", request.status)
        ELSE IF remaining.len = 0 THEN ErrAt("MissingSwapAccounts", request.status)
        ELSE
        LET payout_usd == TokenPayoutUsd(request)
            amount_in == get_lamports_for_micro_usd(price_update, payout_usd)
            minimum_amount_out ==
                calculate_min_output(Unwrap(expected_token_output), DEFAULT_SLIPPAGE_BPS)
        IN  IF ~amount_in.ok THEN ErrAt(amount_in.err, request.status)
            ELSE IF ~minimum_amount_out.ok THEN ErrAt(minimum_amount_out.err, request.status)
            ELSE ClaimRoute(signer, key, MarkClaimed(request), swap_router, swap_data,
                            remaining, price_update, payout_usd, amount_in.val,
                            minimum_amount_out.val)

ClaimBegin(signer, key, vrf_request_slot, payout_mode, swap_router, expected_token_output, swap_data, remaining, price_update) ==
    LET prep == ClaimPrepare(signer, key, vrf_request_slot, payout_mode, swap_router,
                             expected_token_output, swap_data, remaining, price_update)
    IN
    /\ pc = "idle"
    /\ prep.ok
    /\ pc' = prep.pc
    /\ frame' = prep.frame
    /\ result' = Outcome("claim", key, signer, "Invoking", prep.frame.mint_request.status, None)
    /\ UNCHANGED <<clock, config, prize_pools, assigned, admin_ops, calc, user_token, requests, vault, vault_token, vault_wsol, history>>

\* Variant of ClaimAbort: the handler's copy of the record is written
\* back although the handler returned Err
ClaimAbortPersist(code) ==
    /\ requests' = Put(requests, frame.key, frame.mint_request)
    /\ result' = Outcome("claim", frame.key, frame.signer, code, frame.mint_request.status, None)
    /\ pc' = "idle"
    /\ frame' = NoFrame
    /\ UNCHANGED <<clock, config, prize_pools, assigned, admin_ops, calc, user_token, vault, vault_token, vault_wsol, history>>

\* The claim in progress returns Err: nothing is written back
ClaimAbort(code) ==
    Rejected("claim", frame.key, frame.signer, code, frame.mint_request.status)

\* The ClaimCompleted event of a claim that returns Ok
ClaimCompleted(fr) ==
    [user |-> fr.signer,
     total_won_usd |-> fr.mint_request.total_won_usd,
     payout_mode |-> fr.payout_mode,
     payment_mode |-> fr.mint_request.payment_mode,
     swap_router |-> fr.swap_router,
     paid_amount |-> fr.mint_request.paid_amount,
     amount_of_cards |-> fr.mint_request.amount_of_cards,
     timestamp |-> clock.unix_timestamp]

\* The claim in progress returns Ok: paid_amount is set, the accounts are
\* written back and the MintRequest account is closed (close = user)
ClaimExit(fr) ==
    /\ requests' = Close(Put(requests, fr.key, fr.mint_request), fr.key)
    /\ vault' = fr.vault
    /\ vault_wsol' = fr.vault_wsol
    /\ user_token' = fr.user_token
    /\ history' = [history EXCEPT ![fr.key].claimed = @ + 1]
    /\ result' = Outcome("claim", fr.key, fr.signer, "Ok", fr.mint_request.status,
                         Some(ClaimCompleted(fr)))
    /\ pc' = "idle"
    /\ frame' = NoFrame
    /\ UNCHANGED <<clock, config, prize_pools, assigned, admin_ops, calc, vault_token>>

\* SOL claim: the system transfer vault -> participant, and the rest of the handler
ClaimSolTransfer(cpi_ok) ==
    /\ pc = "sol_transfer"
    /\ IF ~cpi_ok THEN ClaimAbort("CpiError")
       ELSE ClaimExit([frame EXCEPT !.vault = @ - frame.amount,
                                    !.mint_request.paid_amount = frame.amount])

\* The Jupiter invocation and the checks after it.  The venue reports
\* success or failure, moves actual_output into the participant's token
\* account and takes input_spent from the vault's WSOL account.
\* Variant of SwapViaJupiterAfter: the input the vault spent is not
\* compared with max_input_amount
SwapViaJupiterAfterNoInputLimit(cpi_ok, actual_output, input_spent) ==
    IF ~cpi_ok THEN "CpiError"
    ELSE IF ~(actual_output >= frame.minimum_amount_out) THEN "SlippageExceeded"
    ELSE "Ok"

\* swap_via_jupiter from the invocation on: what it returns
SwapViaJupiterAfter(cpi_ok, actual_output, input_spent) ==
    IF ~cpi_ok THEN "CpiError"
    ELSE IF ~(actual_output >= frame.minimum_amount_out) THEN "SlippageExceeded"
    ELSE IF ~(input_spent <= frame.amount) THEN "ExcessiveSwapInput"
    ELSE "Ok"

\* The handler replaces every error of swap_via_jupiter by JupiterSwapFailed
JupiterSwapCode(cpi_ok, actual_output, input_spent) ==
    IF SwapViaJupiterAfter(cpi_ok, actual_output, input_spent) # "Ok" THEN "JupiterSwapFailed"
    ELSE "Ok"

ClaimJupiterSwap(cpi_ok, actual_output, input_spent) ==
    /\ pc = "jupiter_swap"
    /\ input_spent <= frame.vault_wsol
    /\ IF JupiterSwapCode(cpi_ok, actual_output, input_spent) # "Ok"
       THEN ClaimAbort(JupiterSwapCode(cpi_ok, actual_output, input_spent))
       ELSE ClaimExit([frame EXCEPT !.vault_wsol = @ - input_spent,
                                    !.user_token = @ + actual_output,
                                    !.mint_request.paid_amount = frame.amount])

\* wrap_sol: system transfer vault -> WSOL account, then sync_native
ClaimWsolWrap(cpi_ok) ==
    /\ pc = "wsol_wrap"
    /\ IF ~cpi_ok \/ frame.amount > frame.vault THEN ClaimAbort("WsolWrapFailed")
       ELSE /\ frame' = [frame EXCEPT !.vault = @ - frame.amount,
                                      !.vault_wsol = @ + frame.amount]
            /\ pc' = "raydium_swap"
            /\ UNCHANGED <<clock, config, prize_pools, assigned, admin_ops, calc, user_token, requests,
                           vault, vault_token, vault_wsol, result, history>>

\* raydium_cpi::swap_base_input: the venue reports success or failure,
\* takes amount_in from the WSOL account and moves actual_output into the
\* output token account; minimum_amount_out is an argument of the
\* invocation, the handler reads no balance after it
ClaimRaydiumSwap(cpi_ok, actual_output) ==
    /\ pc = "raydium_swap"
    /\ IF ~IsRaydiumProgram(frame.program) THEN ClaimAbort("RaydiumSwapFailed")
       ELSE IF ~cpi_ok THEN ClaimAbort("RaydiumSwapFailed")
       ELSE ClaimExit([frame EXCEPT !.vault_wsol = @ - frame.amount,
                                    !.user_token = @ + actual_output,
                                    !.mint_request.paid_amount = frame.amount])

\* Inputs of claim: the well-formed calls of each mode and route, and
\* calls that differ from a well-formed one in a single argument or account
ClaimBase(signer, key) ==
    [signer |-> signer, key |-> key, vrf_request_slot |-> key[2], payout_mode |-> "SOL",
     swap_router |-> None, expected_token_output |-> None, swap_data |-> None,
     remaining |-> [JupiterAccounts EXCEPT !.len = 0], price_update |-> FreshPrice]

ClaimJupiterBase(signer, key) ==
    [ClaimBase(signer, key) EXCEPT !.payout_mode = "Token",
                                   !.swap_router = Some("Jupiter"),
                                   !.expected_token_output = Some(1000),
                                   !.swap_data = Some(JUPITER_ROUTE_DISCRIMINATOR \o <<0>>),
                                   !.remaining = JupiterAccounts]

ClaimRaydiumBase(signer, key) ==
    [ClaimJupiterBase(signer, key) EXCEPT !.swap_router = Some("Raydium"),
                                          !.swap_data = None,
                                          !.remaining = RaydiumAccounts]

ClaimInputs ==
    UNION {
        {[ClaimBase(signer, key) EXCEPT !.price_update = p] : p \in PriceUpdates}
        \cup {[ClaimBase(signer, key) EXCEPT !.vrf_request_slot = key[2] + 1]}
        \cup {[ClaimJupiterBase(signer, key) EXCEPT !.price_update = p] : p \in PriceUpdates}
        \cup {[ClaimJupiterBase(signer, key) EXCEPT !.swap_data = d] : d \in SwapDataInputs}
        \cup {[ClaimJupiterBase(signer, key) EXCEPT !.remaining = r] :
                r \in RemainingAccountInputs}
        \cup {[ClaimJupiterBase(signer, key) EXCEPT !.expected_token_output = None],
              [ClaimJupiterBase(signer, key) EXCEPT !.swap_router = None]}
        \cup {[ClaimRaydiumBase(signer, key) EXCEPT !.remaining = r] :
                r \in RemainingAccountInputs}
        : signer \in Users, key \in DOMAIN history}

\* What the call returns before its first invocation of another program
ClaimCall(in) ==
    ClaimPrepare(in.signer, in.key, in.vrf_request_slot, in.payout_mode, in.swap_router,
                 in.expected_token_output, in.swap_data, in.remaining, in.price_update)

ClaimError(in) == IF ClaimCall(in).ok THEN "Ok" ELSE ClaimCall(in).err

ClaimBeginStep ==
    \E in \in ClaimInputs :
        ClaimBegin(in.signer, in.key, in.vrf_request_slot, in.payout_mode, in.swap_router,
                   in.expected_token_output, in.swap_data, in.remaining, in.price_update)

ClaimSolTransferStep == \E cpi_ok \in BOOLEAN : ClaimSolTransfer(cpi_ok)

ClaimJupiterSwapStep ==
    /\ pc = "jupiter_swap"
    /\ \E cpi_ok \in BOOLEAN,
          actual_output \in {frame.minimum_amount_out - 1, frame.minimum_amount_out},
          input_spent \in {frame.amount, frame.amount + 1} :
            ClaimJupiterSwap(cpi_ok, actual_output, input_spent)

ClaimWsolWrapStep == \E cpi_ok \in BOOLEAN : ClaimWsolWrap(cpi_ok)

ClaimRaydiumSwapStep ==
    /\ pc = "raydium_swap"
    /\ \E cpi_ok \in BOOLEAN,
          actual_output \in {frame.minimum_amount_out - 1, frame.minimum_amount_out} :
            ClaimRaydiumSwap(cpi_ok, actual_output)

\* ---------------------------------------------------------------------
\* refund
\* ---------------------------------------------------------------------
\* lib.rs Refund: first failing account constraint, or "Ok"
RefundAccounts(signer, key, vrf_request_slot) ==
    IF key \notin DOMAIN requests THEN "AccountNotInitialized"
    ELSE IF key # MintRequestPda(signer, vrf_request_slot) THEN "ConstraintSeeds"
    ELSE IF requests[key].user # signer THEN "Unauthorized"
    ELSE IF requests[key].vrf_request_slot # vrf_request_slot THEN "InvalidRequestStatus"
    ELSE "Ok"

\* Variant of is_pending_timeout: the status is not looked at
is_timeout(request) ==
    clock.unix_timestamp - request.created_at > config.request_timeout_seconds

\* Variant of is_pending_timeout: the comparison is >=
is_pending_timeout_inclusive(request) ==
    /\ request.status = "Pending"
    /\ clock.unix_timestamp - request.created_at >= config.request_timeout_seconds

is_pending_timeout(request) ==
    /\ request.status = "Pending"
    /\ clock.unix_timestamp - request.created_at > config.request_timeout_seconds

\* First failing check of the USDT refund path, or "Ok"
UsdtRefundCheck(request, accts) ==
    IF ~accts.present THEN "RefundNotAllowed"
    ELSE IF ~(vault_token >= request.paid_amount) THEN "InsufficientVaultBalance"
    ELSE IF ~accts.user_owner_ok THEN "Unauthorized"
    ELSE IF ~accts.user_mint_ok THEN "InvalidTokenAccount"
    ELSE IF ~accts.vault_mint_ok \/ ~accts.vault_owner_ok THEN "InvalidTokenAccount"
    ELSE "Ok"

\* lib.rs Refund constraints, then the handler: the first failing check, or "Ok"
RefundOutcome(signer, key, vrf_request_slot, accts, cpi_ok) ==
    LET accounts == RefundAccounts(signer, key, vrf_request_slot)
        request == requests[key]
    IN
    IF accounts # "Ok" THEN accounts
    ELSE IF ~is_pending_timeout(request) THEN "RefundNotAllowed"
    ELSE IF request.payment_mode = "SOL" /\ ~(vault >= request.paid_amount)
         THEN "InsufficientVaultBalance"
    ELSE IF request.payment_mode = "USDT" /\ UsdtRefundCheck(request, accts) # "Ok"
         THEN UsdtRefundCheck(request, accts)
    ELSE IF ~cpi_ok THEN "CpiError"
    ELSE "Ok"

\* A refund that returns Ok: the payment goes back and the MintRequest
\* account is closed (close = user)
Refund(signer, key, vrf_request_slot, accts, cpi_ok) ==
    LET request == requests[key]
    IN
    /\ pc = "idle"
    /\ RefundOutcome(signer, key, vrf_request_slot, accts, cpi_ok) = "Ok"
    /\ vault' = IF request.payment_mode = "SOL" THEN vault - request.paid_amount
                ELSE vault
    /\ vault_token' = IF request.payment_mode = "USDT"
                      THEN vault_token - request.paid_amount ELSE vault_token
    /\ requests' = Close(requests, key)
    /\ history' = [history EXCEPT ![key].refunded = @ + 1]
    /\ result' = Outcome("refund", key, signer, "Ok", request.status, None)
    /\ UNCHANGED <<clock, config, prize_pools, assigned, admin_ops, calc, user_token, vault_wsol, pc, frame>>

RefundInputs ==
    UNION {
        {[signer |-> signer, key |-> key, vrf_request_slot |-> key[2], accts |-> a,
          cpi_ok |-> TRUE] : a \in TokenAccountInputs}
        \cup {[signer |-> signer, key |-> key, vrf_request_slot |-> key[2] + 1,
               accts |-> ValidTokenAccounts, cpi_ok |-> TRUE],
              [signer |-> signer, key |-> key, vrf_request_slot |-> key[2],
               accts |-> ValidTokenAccounts, cpi_ok |-> FALSE]}
        : signer \in Users, key \in DOMAIN history}

RefundCall(in) == RefundOutcome(in.signer, in.key, in.vrf_request_slot, in.accts, in.cpi_ok)

RefundStep ==
    \E in \in RefundInputs :
        Refund(in.signer, in.key, in.vrf_request_slot, in.accts, in.cpi_ok)

\* ---------------------------------------------------------------------
\* instructions/admin: the prize pool registry, the configuration record
\* and the withdrawals. Each instruction: the first failing check or the
\* state it leaves, then the step it takes when it returns Ok
\* ---------------------------------------------------------------------
Registry == [config |-> config, prize_pools |-> prize_pools, assigned |-> assigned]

ActiveIds(cfg) == {cfg.active_pool_indices[i] : i \in 0..(cfg.active_pool_count - 1)}

AdminStep(op, signer, event) ==
    /\ admin_ops' = admin_ops + 1
    /\ result' = Outcome(op, NoKey, signer, "Ok", "NoAccount", event)
    /\ UNCHANGED <<clock, requests, vault_wsol, pc, frame, history, calc, user_token>>

\* Variant of AddPrizePoolOutcome: the capacity check admits a full list
AddPrizePoolOutcomeInclusive(signer, swap_pool, pool_type, name, overflow_checks) ==
    IF ~ConfigInitialized(config) THEN Err("AccountNotInitialized")
    ELSE IF config.prize_pool_count \in DOMAIN prize_pools THEN Err("AccountAlreadyInUse")
    ELSE IF config.admin # signer THEN Err("Unauthorized")
    ELSE IF ~(config.active_pool_count <= MAX_PRIZE_POOLS) THEN Err("MaxPrizePoolsReached")
    ELSE IF overflow_checks /\ config.prize_pool_count = U8_MAX
         THEN Err("ProgramFailedToComplete")
    ELSE IF Len(name) > MAX_NAME_LEN THEN Err("AccountDidNotSerialize")
    ELSE Ok(AddPool(Registry, swap_pool, pool_type, name))

\* lib.rs AddPrizePool (init of the pool account at the address derived
\* from prize_pool_count, administrator constraint), then the handler.
\* overflow_checks: whether the build checks integer overflow; += 1 on the
\* u8 counter at 255 panics if it does and wraps if it does not. The
\* account is serialized on exit into the space of a name of MAX_NAME_LEN
\* bytes
AddPrizePoolOutcome(signer, swap_pool, pool_type, name, overflow_checks) ==
    IF ~ConfigInitialized(config) THEN Err("AccountNotInitialized")
    ELSE IF config.prize_pool_count \in DOMAIN prize_pools THEN Err("AccountAlreadyInUse")
    ELSE IF config.admin # signer THEN Err("Unauthorized")
    ELSE IF ~(config.active_pool_count < MAX_PRIZE_POOLS) THEN Err("MaxPrizePoolsReached")
    ELSE IF overflow_checks /\ config.prize_pool_count = U8_MAX
         THEN Err("ProgramFailedToComplete")
    ELSE IF Len(name) > MAX_NAME_LEN THEN Err("AccountDidNotSerialize")
    ELSE Ok(AddPool(Registry, swap_pool, pool_type, name))

AddPrizePool(signer, swap_pool, pool_type, name, overflow_checks) ==
    LET res == AddPrizePoolOutcome(signer, swap_pool, pool_type, name, overflow_checks)
    IN
    /\ pc = "idle"
    /\ admin_ops < MaxAdminOps
    /\ res.ok
    /\ config' = res.val.config
    /\ prize_pools' = res.val.prize_pools
    /\ assigned' = res.val.assigned
    /\ AdminStep("add_prize_pool", signer,
                 Some([name |-> "PrizePoolAdded", admin |-> signer,
                       index |-> config.prize_pool_count, swap_pool |-> swap_pool]))
    /\ UNCHANGED <<vault, vault_token>>

\* Names, pools and build profiles an add is called with
AddPrizePoolInputs ==
    {[swap_pool |-> "pool_b", pool_type |-> "Jupiter", name |-> "BONK"],
     [swap_pool |-> "pool_a", pool_type |-> "Orca", name |-> "a_name_of_17_bytes"]}

AddPrizePoolStep ==
    \E signer \in Signers, in \in AddPrizePoolInputs, overflow_checks \in BOOLEAN :
        AddPrizePool(signer, in.swap_pool, in.pool_type, in.name, overflow_checks)

\* lib.rs RemovePrizePool (the pool account at key must exist), then the
\* handler on that account's index
RemovePrizePoolOutcome(signer, key) ==
    IF ~ConfigInitialized(config) THEN Err("AccountNotInitialized")
    ELSE IF key \notin DOMAIN prize_pools THEN Err("AccountNotInitialized")
    ELSE IF config.admin # signer THEN Err("Unauthorized")
    ELSE IF ~(config.active_pool_count > 0) THEN Err("NoPrizePoolToRemove")
    ELSE IF prize_pools[key].index \notin ActiveIds(config) THEN Err("InvalidPrizePoolIndex")
    ELSE Ok(RemovePool(Registry, prize_pools[key].index))

RemovePrizePool(signer, key) ==
    LET res == RemovePrizePoolOutcome(signer, key)
    IN
    /\ pc = "idle"
    /\ admin_ops < MaxAdminOps
    /\ res.ok
    /\ config' = res.val.config
    /\ prize_pools' = res.val.prize_pools
    /\ assigned' = res.val.assigned
    /\ AdminStep("remove_prize_pool", signer,
                 Some([name |-> "PrizePoolRemoved", admin |-> signer,
                       index |-> prize_pools[key].index,
                       swap_pool |-> prize_pools[key].swap_pool]))
    /\ UNCHANGED <<vault, vault_token>>

\* Pool accounts a remove or an update is called with: the first, the middle
\* and the last of the active list, a pool account that is not in the list,
\* and an address where no pool account exists
PoolKeyInputs ==
    LET n == config.active_pool_count
        listed == IF n = 0 THEN {}
                  ELSE {config.active_pool_indices[0], config.active_pool_indices[n \div 2],
                        config.active_pool_indices[n - 1]}
        unlisted == DOMAIN prize_pools \ ActiveIds(config)
    IN  listed \cup {k \in unlisted : \A j \in unlisted : k <= j}
               \cup {k \in {100} : k \notin DOMAIN prize_pools}

RemovePrizePoolStep ==
    \E signer \in Signers, key \in PoolKeyInputs : RemovePrizePool(signer, key)

\* lib.rs UpdatePrizePool, then the handler: the pool account it leaves
UpdatePrizePoolOutcome(signer, key, swap_pool, pool_type, name) ==
    IF ~ConfigInitialized(config) THEN Err("AccountNotInitialized")
    ELSE IF key \notin DOMAIN prize_pools THEN Err("AccountNotInitialized")
    ELSE IF config.admin # signer THEN Err("Unauthorized")
    ELSE LET prize_pool ==
                 [prize_pools[key] EXCEPT
                     !.swap_pool = IF IsSome(swap_pool) THEN Unwrap(swap_pool) ELSE @,
                     !.pool_type = IF IsSome(pool_type) THEN Unwrap(pool_type) ELSE @,
                     !.name = IF IsSome(name) THEN Unwrap(name) ELSE @]
         IN  IF Len(prize_pool.name) > MAX_NAME_LEN THEN Err("AccountDidNotSerialize")
             ELSE Ok(prize_pool)

UpdatePrizePool(signer, key, swap_pool, pool_type, name) ==
    LET res == UpdatePrizePoolOutcome(signer, key, swap_pool, pool_type, name)
    IN
    /\ pc = "idle"
    /\ admin_ops < MaxAdminOps
    /\ res.ok
    /\ prize_pools' = Put(prize_pools, key, res.val)
    /\ AdminStep("update_prize_pool", signer,
                 Some([name |-> "PrizePoolUpdated", admin |-> signer,
                       index |-> prize_pools[key].index,
                       old_swap_pool |-> prize_pools[key].swap_pool,
                       new_swap_pool |-> res.val.swap_pool]))
    /\ UNCHANGED <<config, assigned, vault, vault_token>>

UpdatePrizePoolInputs ==
    {[swap_pool |-> None, pool_type |-> None, name |-> None],
     [swap_pool |-> Some("pool_c"), pool_type |-> Some("RaydiumAMM"), name |-> Some("WIF")],
     [swap_pool |-> None, pool_type |-> None, name |-> Some("a_name_of_17_bytes")]}

UpdatePrizePoolStep ==
    \E signer \in Signers, key \in PoolKeyInputs, in \in UpdatePrizePoolInputs :
        UpdatePrizePool(signer, key, in.swap_pool, in.pool_type, in.name)

\* initialize.rs migrate_config: the administrator is read from the raw
\* data of the account (a closed account has none)
MigrateConfigOutcome(signer, prize_pool_count) ==
    IF ~ConfigInitialized(config) THEN Err("Unauthorized")
    ELSE IF config.admin # signer THEN Err("Unauthorized")
    ELSE Ok(MigrateConfigState(config, prize_pool_count))

MigrateConfig(signer, prize_pool_count) ==
    LET res == MigrateConfigOutcome(signer, prize_pool_count)
    IN
    /\ pc = "idle"
    /\ admin_ops < MaxAdminOps
    /\ res.ok
    /\ config' = res.val
    /\ AdminStep("migrate_config", signer, None)
    /\ UNCHANGED <<prize_pools, assigned, vault, vault_token>>

\* Values of the u8 argument of migrate_config
MigrateConfigInputs == {0, config.prize_pool_count, U8_MAX}

MigrateConfigStep ==
    \E signer \in Signers, prize_pool_count \in MigrateConfigInputs :
        MigrateConfig(signer, prize_pool_count)

\* initialize.rs close_config
CloseConfigOutcome(signer) ==
    IF ~ConfigInitialized(config) THEN Err("Unauthorized")
    ELSE IF config.admin # signer THEN Err("Unauthorized")
    ELSE Ok(ClosedConfig)

CloseConfig(signer) ==
    LET res == CloseConfigOutcome(signer)
    IN
    /\ pc = "idle"
    /\ admin_ops < MaxAdminOps
    /\ res.ok
    /\ config' = res.val
    /\ AdminStep("close_config", signer, None)
    /\ UNCHANGED <<prize_pools, assigned, vault, vault_token>>

CloseConfigStep == \E signer \in Signers : CloseConfig(signer)

\* lib.rs Initialize (init of the configuration record), then the handler:
\* the signer becomes the administrator
InitializeOutcome(signer, platform_fee_bps) ==
    IF ConfigInitialized(config) THEN Err("AccountAlreadyInUse")
    ELSE Ok(InitializeConfig(signer, platform_fee_bps))

Initialize(signer, platform_fee_bps) ==
    LET res == InitializeOutcome(signer, platform_fee_bps)
    IN
    /\ pc = "idle"
    /\ admin_ops < MaxAdminOps
    /\ res.ok
    /\ config' = res.val
    /\ AdminStep("initialize", signer, None)
    /\ UNCHANGED <<prize_pools, assigned, vault, vault_token>>

InitializeStep == \E signer \in Users \cup {ADMIN} : Initialize(signer, 500)

\* Variant of WithdrawSolOutcome: the administrator constraint is missing
WithdrawSolOutcomeAnySigner(signer, amount) ==
    LET available == IF vault > MIN_RENT THEN vault - MIN_RENT ELSE 0
    IN  IF ~ConfigInitialized(config) THEN Err("AccountNotInitialized")
        ELSE IF ~(amount <= available) THEN Err("InsufficientVaultBalance")
        ELSE Ok(vault - amount)

\* lib.rs WithdrawSol, then withdraw.rs withdraw_sol: the lamports the vault
\* keeps
WithdrawSolOutcome(signer, amount) ==
    LET available == IF vault > MIN_RENT THEN vault - MIN_RENT ELSE 0
    IN  IF ~ConfigInitialized(config) THEN Err("AccountNotInitialized")
        ELSE IF config.admin # signer THEN Err("Unauthorized")
        ELSE IF ~(amount <= available) THEN Err("InsufficientVaultBalance")
        ELSE Ok(vault - amount)

WithdrawSol(signer, amount) ==
    LET res == WithdrawSolOutcome(signer, amount)
    IN
    /\ pc = "idle"
    /\ admin_ops < MaxAdminOps
    /\ res.ok
    /\ vault' = res.val
    /\ AdminStep("withdraw_sol", signer, None)
    /\ UNCHANGED <<config, prize_pools, assigned, vault_token>>

\* Everything above the rent-exempt minimum, and one lamport more
WithdrawSolInputs ==
    LET available == IF vault > MIN_RENT THEN vault - MIN_RENT ELSE 0
    IN  {available, available + 1}

WithdrawSolStep ==
    \E signer \in Signers, amount \in WithdrawSolInputs : WithdrawSol(signer, amount)

\* lib.rs WithdrawToken, then withdraw.rs withdraw_token: the tokens the
\* vault's token account keeps
WithdrawTokenOutcome(signer, amount) ==
    IF ~ConfigInitialized(config) THEN Err("AccountNotInitialized")
    ELSE IF config.admin # signer THEN Err("Unauthorized")
    ELSE IF ~(vault_token >= amount) THEN Err("InsufficientVaultBalance")
    ELSE Ok(vault_token - amount)

WithdrawToken(signer, amount) ==
    LET res == WithdrawTokenOutcome(signer, amount)
    IN
    /\ pc = "idle"
    /\ admin_ops < MaxAdminOps
    /\ res.ok
    /\ vault_token' = res.val
    /\ AdminStep("withdraw_token", signer, None)
    /\ UNCHANGED <<config, prize_pools, assigned, vault>>

WithdrawTokenInputs == {vault_token, vault_token + 1}

WithdrawTokenStep ==
    \E signer \in Signers, amount \in WithdrawTokenInputs : WithdrawToken(signer, amount)

\* ---------------------------------------------------------------------
\* utils/vrf_helper.rs process_vrf_result, statement by statement: one step
\* for each pass of the loop over the cards, one for the pool selection and
\* the return
\* ---------------------------------------------------------------------
\* u64::to_le_bytes, for values below 2^31
ToLeBytes64(x) == [j \in 0..7 |-> IF j < 4 THEN (x \div (256 ^ j)) % 256 ELSE 0]

\* build_random_bytes of the tests: tier entropy, amount entropy, tail
build_random_bytes(tier_entropy, amount_entropy, tail) ==
    [i \in 0..31 |-> IF i < 8 THEN ToLeBytes64(tier_entropy)[i]
                     ELSE IF i < 16 THEN ToLeBytes64(amount_entropy)[i - 8]
                     ELSE tail]

\* The seed whose derived value for card 0 is target: with index 0 the first
\* loop of derive_random_result changes nothing, the second is undone byte
\* by byte
SeedFor(target) ==
    [i \in 0..31 |-> IF i = 0 THEN target[0]
                     ELSE Xor8(target[i], WrappingMul8(target[i - 1], 31))]

\* Tier rolls at and around the thresholds, and a tier entropy beyond
\* PROB_PRECISION
TierEntropies ==
    {0, 100000, TIER1_THRESHOLD - 1, TIER1_THRESHOLD, TIER2_THRESHOLD - 1, TIER2_THRESHOLD,
     TIER3_THRESHOLD - 1, TIER3_THRESHOLD, PROB_PRECISION - 1, PROB_PRECISION + 100000}

\* Step entropies at and around the step counts of the tiers
AmountEntropies ==
    {0, 8, TIER1_STEPS - 1, TIER1_STEPS, TIER2_STEPS - 1, TIER2_STEPS, TIER3_STEPS - 1,
     TIER3_STEPS, TIER4_STEPS - 1, TIER4_STEPS}

\* Values the first card is to see
CardTargets ==
    {build_random_bytes(t, a, 0) : t \in TierEntropies, a \in AmountEntropies}
        \cup {[i \in 0..31 |-> 255]}

\* Seeds for whole requests: bytes 8..15 hold 8 in two of them, which differ
\* everywhere else
RequestSeeds ==
    {build_random_bytes(0, 8, 0), build_random_bytes(2000000011, 8, 77),
     build_random_bytes(999999, 499, 1), [i \in 0..31 |-> 255],
     [i \in 0..31 |-> IF i \in 8..15 THEN 255 ELSE i]}

\* (randomness, amount_of_cards) process_vrf_result is called with
ProcessVrfInputs ==
    {[randomness |-> SeedFor(target), amount_of_cards |-> 1] : target \in CardTargets}
        \cup {[randomness |-> seed, amount_of_cards |-> n] :
                  seed \in RequestSeeds, n \in {1, 2, 100}}

\* Pools 0..8 added, the odd ones removed: the active list is 0, 2, 4, 6, 8
GappedRegistry ==
    RemovePool(RemovePool(RemovePool(RemovePool(AddPools(FreshRegistry, 9), 1), 3), 5), 7)

ProcessVrfRegistries == {FreshRegistry, GappedRegistry, NearCapacityRegistry}

\* Expected outputs calculate_min_output is called with: small ones, the
\* largest whose product with 10000, 9900 and 9700 fits 64 bits, the next
\* larger ones, and u64::MAX
MinOutputExpected ==
    {ToU64(0), ToU64(1), ToU64(33), ToU64(1000), ToU64(1000000000), ToU64(2147483647),
     <<70955, 44073, 84467, 1>>, <<70956, 44073, 84467, 1>>,
     <<92884, 74821, 86330, 1>>, <<92885, 74821, 86330, 1>>,
     <<65933, 61931, 90172, 1>>, <<65934, 61931, 90172, 1>>, U64_MAX}

MinOutputSlippage == {0, 100, DEFAULT_SLIPPAGE_BPS}

\* Entry of calculate_min_output
MinOutputEntry(expected_output, slippage_bps) ==
    [fn |-> "calculate_min_output",
     expected_output |-> expected_output,
     slippage_bps |-> slippage_bps,
     ret |-> << >>]

\* calculate_min_output runs and returns
CalculateMinOutput ==
    /\ calc.fn = "calculate_min_output"
    /\ calc.ret = << >>
    /\ calc' = [calc EXCEPT !.ret =
                   <<calculate_min_output_u64(calc.expected_output, calc.slippage_bps)>>]
    /\ UNCHANGED <<clock, config, requests, vault, vault_token, vault_wsol, pc, frame, result,
                   history, prize_pools, assigned, admin_ops, user_token>>

\* Entry: total_won_usd = 0, the loop at card 0
ProcessVrfEntry(randomness, amount_of_cards) ==
    [fn |-> "process_vrf_result",
     randomness |-> randomness,
     amount_of_cards |-> amount_of_cards,
     i |-> 0,
     total_won_usd |-> ToU64(0),
     card_random |-> << >>,
     won |-> 0,
     derived |-> << >>,
     ret |-> << >>]

\* One pass of the loop: the card's value is derived, mapped to its reward
\* and added; ArithmeticOverflow is returned if the sum does not fit
ProcessCard ==
    /\ calc.fn = "process_vrf_result"
    /\ calc.ret = << >>
    /\ calc.i < calc.amount_of_cards
    /\ LET card_random == derive_random_result(calc.randomness, calc.i)
           won == map_to_tiered_distribution(card_random)
           sum == checked_add(calc.total_won_usd, ToU64(won))
       IN  calc' = IF sum = << >>
                   THEN [calc EXCEPT !.ret = <<Err("ArithmeticOverflow")>>]
                   ELSE [calc EXCEPT !.i = @ + 1,
                                     !.total_won_usd = sum[1],
                                     !.card_random = <<card_random>>,
                                     !.won = won,
                                     !.derived = Append(@, card_random)]
    /\ UNCHANGED <<clock, config, requests, vault, vault_token, vault_wsol, pc, frame, result,
                   history, prize_pools, assigned, admin_ops, user_token>>

\* After the loop: the pool is selected from the original randomness and
\* the result is returned
SelectPool ==
    /\ calc.fn = "process_vrf_result"
    /\ calc.ret = << >>
    /\ calc.i = calc.amount_of_cards
    /\ LET selected_pool_index ==
               IF config.active_pool_count > 0
               THEN select_active_prize_pool(calc.randomness, config.active_pool_count,
                                             config.active_pool_indices)
               ELSE 0
       IN  calc' = [calc EXCEPT !.ret = <<Ok([total_won_usd |-> calc.total_won_usd,
                                               selected_pool_index |-> selected_pool_index])>>]
    /\ UNCHANGED <<clock, config, requests, vault, vault_token, vault_wsol, pc, frame, result,
                   history, prize_pools, assigned, admin_ops, user_token>>

\* ---------------------------------------------------------------------
\* Specification
\* ---------------------------------------------------------------------
Next ==
    \/ Tick
    \/ RequestMintStep
    \/ ConsumeLotteryRandomnessStep
    \/ ClaimBeginStep
    \/ ClaimSolTransferStep
    \/ ClaimJupiterSwapStep
    \/ ClaimWsolWrapStep
    \/ ClaimRaydiumSwapStep
    \/ RefundStep

Spec == Init /\ [][Next]_vars

\* The administration: any of the start registries, every administrative
\* instruction, and requests revealed against the registry of the moment
RegistryInit ==
    /\ clock = [unix_timestamp |-> 0, slot |-> 0]
    /\ \E reg \in StartRegistries :
          /\ config = reg.config
          /\ prize_pools = reg.prize_pools
          /\ assigned = reg.assigned
    /\ requests = << >>
    /\ vault = MIN_RENT + VaultFunding
    /\ vault_token = 0
    /\ vault_wsol = WsolFunding
    /\ pc = "idle"
    /\ frame = NoFrame
    /\ result = Outcome("initialize", NoKey, ADMIN, "Ok", "NoAccount", None)
    /\ history = << >>
    /\ admin_ops = 0
    /\ calc = NoCalc
    /\ user_token = 0

RegistryNext ==
    \/ InitializeStep
    \/ MigrateConfigStep
    \/ CloseConfigStep
    \/ AddPrizePoolStep
    \/ RemovePrizePoolStep
    \/ UpdatePrizePoolStep
    \/ WithdrawSolStep
    \/ WithdrawTokenStep
    \/ RequestMintStep
    \/ ConsumeLotteryRandomnessStep

RegistrySpec == RegistryInit /\ [][RegistryNext]_vars

\* The registry under add, remove and update alone (the configuration record
\* is never migrated, closed or initialized again), and requests revealed
\* against it
PoolNext ==
    \/ AddPrizePoolStep
    \/ RemovePrizePoolStep
    \/ UpdatePrizePoolStep
    \/ RequestMintStep
    \/ ConsumeLotteryRandomnessStep

PoolSpec == RegistryInit /\ [][PoolNext]_vars

\* The helper functions on their own: process_vrf_result called with each
\* of its inputs against each of the registries, calculate_min_output
\* called with each of its
HelperInit ==
    /\ clock = [unix_timestamp |-> 0, slot |-> 0]
    /\ \E reg \in ProcessVrfRegistries :
          /\ config = reg.config
          /\ prize_pools = reg.prize_pools
          /\ assigned = reg.assigned
    /\ requests = << >>
    /\ vault = MIN_RENT + VaultFunding
    /\ vault_token = 0
    /\ vault_wsol = WsolFunding
    /\ pc = "idle"
    /\ frame = NoFrame
    /\ result = Outcome("initialize", NoKey, ADMIN, "Ok", "NoAccount", None)
    /\ history = << >>
    /\ admin_ops = 0
    /\ user_token = 0
    /\ \/ \E in \in ProcessVrfInputs :
             calc = ProcessVrfEntry(in.randomness, in.amount_of_cards)
       \/ \E expected_output \in MinOutputExpected, slippage_bps \in MinOutputSlippage :
             calc = MinOutputEntry(expected_output, slippage_bps)

HelperNext ==
    \/ ProcessCard
    \/ SelectPool
    \/ CalculateMinOutput

HelperSpec == HelperInit /\ [][HelperNext]_vars

TypeOK ==
    /\ clock.unix_timestamp \in TimePoints
    /\ pc \in {"idle", "sol_transfer", "jupiter_swap", "wsol_wrap", "raydium_swap"}
    /\ DOMAIN requests \subseteq DOMAIN history
    /\ vault >= 0 /\ vault_token >= 0 /\ vault_wsol >= 0

\* ---------------------------------------------------------------------
\* Properties of the request lifecycle
\* ---------------------------------------------------------------------
Elapsed(t) == clock.unix_timestamp - t

\* The record's owner and the well-formed calls the owner can make
Owner(key) == key[1]
OwnerClaim(key) == ClaimBase(Owner(key), key)
OwnerRefund(key) ==
    [signer |-> Owner(key), key |-> key, vrf_request_slot |-> key[2],
     accts |-> ValidTokenAccounts, cpi_ok |-> TRUE]

\* C1: for every record, at most one claim or refund ever returns Ok; once
\* one has, the record's account no longer exists and every reveal, claim
\* and refund addressed to it fails.
C1_AtMostOnePayout ==
    \A k \in DOMAIN history :
        /\ history[k].claimed + history[k].refunded <= 1
        /\ history[k].claimed + history[k].refunded = 1 =>
              /\ k \notin DOMAIN requests
              /\ \A in \in ClaimInputs : in.key = k => ~ClaimCall(in).ok
              /\ \A in \in RefundInputs : in.key = k => RefundCall(in) # "Ok"
              /\ \A signer \in Signers, randomness \in Entropies :
                    ~ConsumeLotteryRandomnessOutcome(signer, k, randomness).ok

\* A record has been refunded, its account is gone and a further refund
\* or a claim by its owner, now addressed to no account, is rejected
C1_Witness ==
    \E k \in DOMAIN history :
        /\ history[k].refunded = 1
        /\ k \notin DOMAIN requests
        /\ result.op = "refund" /\ result.code = "Ok" /\ result.key = k
        /\ RefundCall(OwnerRefund(k)) = "AccountNotInitialized"
        /\ ClaimError(OwnerClaim(k)) = "AccountNotInitialized"

\* C2: for every record, a refund and a reveal never both return Ok: a
\* refund that returns Ok saw status Pending, every refund on a Revealed
\* record fails (with RefundNotAllowed once the account constraints pass),
\* and after a refund no reveal of the record returns Ok.
C2_RefundExcludesReveal ==
    /\ (result.op = "refund" /\ result.code = "Ok") => result.status = "Pending"
    /\ \A k \in DOMAIN history :
          /\ ~(history[k].revealed >= 1 /\ history[k].refunded >= 1)
          /\ (k \in DOMAIN requests /\ requests[k].status = "Revealed") =>
                \A in \in RefundInputs : in.key = k =>
                    /\ RefundCall(in) # "Ok"
                    /\ RefundAccounts(in.signer, k, in.vrf_request_slot) = "Ok"
                          => RefundCall(in) = "RefundNotAllowed"
          /\ history[k].refunded >= 1 =>
                \A signer \in Signers, randomness \in Entropies :
                    ~ConsumeLotteryRandomnessOutcome(signer, k, randomness).ok

\* A Revealed record older than the refund timeout: the owner's refund is
\* rejected with RefundNotAllowed
C2_Witness ==
    \E k \in DOMAIN requests :
        /\ requests[k].status = "Revealed"
        /\ history[k].revealed = 1
        /\ Elapsed(requests[k].created_at) > config.request_timeout_seconds
        /\ RefundCall(OwnerRefund(k)) = "RefundNotAllowed"

\* C3: a reveal by the VRF identity on a record that is already Revealed
\* returns Ok and leaves the record as it is, whatever the randomness.
C3_RevealIdempotent ==
    \A k \in DOMAIN requests :
        requests[k].status = "Revealed" =>
            \A randomness \in Entropies :
                ConsumeLotteryRandomnessOutcome(VRF_PROGRAM_IDENTITY, k, randomness)
                    = Ok(requests[k])

C4_StatusOK ==
    /\ \A k \in DOMAIN requests : requests[k].status \in {"Pending", "Revealed"}
    /\ pc # "idle" =>
          /\ frame.mint_request.status = "Claimed"
          /\ requests[frame.key].status = "Revealed"
    /\ result.status \in {"NoAccount", "Pending", "Revealed", "Claimed"}

C4_Step ==
    /\ \A k \in DOMAIN requests \cap DOMAIN requests' :
          requests'[k].status # requests[k].status =>
              /\ requests[k].status = "Pending"
              /\ requests'[k].status = "Revealed"
              /\ result'.op = "consume_lottery_randomness"
    /\ \A k \in DOMAIN requests' \ DOMAIN requests : requests'[k].status = "Pending"
    /\ (pc # "idle" /\ result'.op = "claim" /\ result'.code = "Ok") =>
          /\ result'.status = "Claimed"
          /\ requests[result'.key].status = "Revealed"

\* C4: a record is created Pending; the only changes of its status are
\* Pending to Revealed, made by the reveal, and Revealed to Claimed, made
\* by a claim on a Revealed record; no record ever has status Failed.
C4_StatusMonotone == []C4_StatusOK /\ [][C4_Step]_vars

\* A claim returned Ok on a record that was created, then revealed once
C4_Witness ==
    /\ result.op = "claim" /\ result.code = "Ok" /\ result.status = "Claimed"
    /\ history[result.key].revealed = 1
    /\ history[result.key].claimed = 1

C6_Aborted ==
    (result.op = "claim" /\ result.code \notin {"Ok", "Invoking"}) =>
        /\ result.key \in DOMAIN requests
        /\ requests[result.key].status = "Revealed"
        /\ ClaimWindowOpen(requests[result.key]) => ClaimCall(OwnerClaim(result.key)).ok

C6_Step ==
    (pc # "idle" /\ pc' = "idle" /\ result'.code # "Ok") =>
        /\ requests' = requests
        /\ vault' = vault
        /\ vault_token' = vault_token
        /\ vault_wsol' = vault_wsol
        /\ history' = history

\* C6: when a claim fails at or after an invocation of another program,
\* nothing it did is kept: the record, still Revealed, and the vault are
\* as before the claim, and the owner's claim is accepted again while the
\* window is open.
C6_FailedSettlementAborts == []C6_Aborted /\ [][C6_Step]_vars

\* A Jupiter claim failed after the status write; the record is Revealed
C6_Witness ==
    /\ result.op = "claim"
    /\ result.code = "JupiterSwapFailed"
    /\ result.status = "Claimed"
    /\ requests[result.key].status = "Revealed"
    /\ ClaimCall(OwnerClaim(result.key)).ok

\* Calls of claim that pass the account constraints on a Revealed record
ClaimsOnRevealed ==
    {in \in ClaimInputs :
        ClaimAccounts(in.signer, in.key, in.vrf_request_slot) = "Ok"}

\* C7 as stated: the claim is rejected with ClaimExpired exactly when more
\* than CLAIM_TIMEOUT_SECONDS have passed since revealed_at.
C7_ExpiredAfterWindow ==
    \A in \in ClaimsOnRevealed :
        ClaimError(in) = "ClaimExpired"
            <=> Elapsed(requests[in.key].revealed_at) > CLAIM_TIMEOUT_SECONDS

\* C7 amended: the claim is rejected with ClaimExpired exactly when
\* CLAIM_TIMEOUT_SECONDS or more have passed since revealed_at.
C7_ExpiredFromWindowEnd ==
    \A in \in ClaimsOnRevealed :
        ClaimError(in) = "ClaimExpired"
            <=> Elapsed(requests[in.key].revealed_at) >= CLAIM_TIMEOUT_SECONDS

\* The owner claims exactly CLAIM_TIMEOUT_SECONDS after the reveal and is
\* rejected with ClaimExpired
C7_Witness ==
    \E k \in DOMAIN requests :
        /\ requests[k].status = "Revealed"
        /\ Elapsed(requests[k].revealed_at) = CLAIM_TIMEOUT_SECONDS
        /\ ClaimError(OwnerClaim(k)) = "ClaimExpired"

C8_Step ==
    (pc # "idle" /\ result'.op = "claim" /\ result'.code = "Ok") =>
        LET total == requests[frame.key].total_won_usd
            expected_usd ==
                IF frame.payout_mode = "SOL"
                THEN 95 * (total \div 100) + (95 * (total % 100)) \div 100
                ELSE total
            expected_amount == get_lamports_for_micro_usd(frame.price_update, expected_usd).val
            event == Unwrap(result'.event)
        IN  /\ frame.payout_usd = expected_usd
            /\ frame.amount = expected_amount
            /\ event.paid_amount = expected_amount
            /\ event.total_won_usd = total
            /\ frame.payout_mode = "SOL" =>
                  /\ vault - vault' = expected_amount
                  /\ vault_wsol' = vault_wsol
            /\ frame.payout_mode = "Token" =>
                  /\ vault' <= vault
                  /\ (vault - vault') + (vault_wsol - vault_wsol') <= expected_amount

\* C8: a claim that returns Ok has converted floor(total_won_usd * 95 / 100)
\* in SOL mode, and total_won_usd in Token mode, to lamports at the price
\* passed in; that amount is what it pays (SOL) or gives the swap as
\* input (Token), and what it reports as paid.
C8_PayoutSplit == [][C8_Step]_vars

\* A SOL claim returned Ok and paid less than the whole reward is worth
C8_Witness ==
    /\ result.op = "claim" /\ result.code = "Ok"
    /\ Unwrap(result.event).payout_mode = "SOL"
    /\ Unwrap(result.event).paid_amount > 0
    /\ Unwrap(result.event).paid_amount
          < get_lamports_for_micro_usd(FreshPrice, Unwrap(result.event).total_won_usd).val

\* C9: a claim by anyone but the record's owner fails, and a claim on a
\* Pending record fails (with InvalidRequestStatus when the owner makes
\* it); a claim that gets as far as paying is the owner's, on a Revealed
\* record.  A failed claim changes no account.
C9_ClaimOwnerRevealedOnly ==
    /\ \A in \in ClaimInputs :
          in.key \in DOMAIN requests =>
              /\ in.signer # requests[in.key].user => ~ClaimCall(in).ok
              /\ requests[in.key].status = "Pending" =>
                    /\ ~ClaimCall(in).ok
                    /\ (/\ in.signer = requests[in.key].user
                        /\ in.vrf_request_slot = requests[in.key].vrf_request_slot)
                          => ClaimError(in) = "InvalidRequestStatus"
    /\ pc # "idle" =>
          /\ frame.signer = requests[frame.key].user
          /\ requests[frame.key].status = "Revealed"
    /\ (result.op = "claim" /\ result.code = "Ok") => result.signer = Owner(result.key)

\* A Revealed record inside its window: the owner's claim is accepted,
\* another participant's is rejected
C9_Witness ==
    \E k \in DOMAIN requests :
        /\ requests[k].status = "Revealed"
        /\ ClaimCall(OwnerClaim(k)).ok
        /\ \E u \in Users \ {requests[k].user} :
              ClaimError(ClaimBase(u, k)) \in {"ConstraintSeeds", "Unauthorized"}

\* C10: a refund that passes the account constraints fails with
\* RefundNotAllowed whenever the record is not Pending or no more than
\* request_timeout_seconds have passed since created_at; it returns Ok
\* only for a Pending record older than the timeout.
C10_RefundNotAllowed ==
    \A in \in RefundInputs :
        (/\ in.key \in DOMAIN requests
         /\ RefundAccounts(in.signer, in.key, in.vrf_request_slot) = "Ok") =>
            LET request == requests[in.key]
                blocked == \/ request.status # "Pending"
                           \/ Elapsed(request.created_at) <= config.request_timeout_seconds
            IN  /\ blocked => RefundCall(in) = "RefundNotAllowed"
                /\ RefundCall(in) = "Ok" => ~blocked

\* A Pending record exactly request_timeout_seconds old: the owner's
\* refund is rejected with RefundNotAllowed
C10_Witness ==
    \E k \in DOMAIN requests :
        /\ requests[k].status = "Pending"
        /\ Elapsed(requests[k].created_at) = config.request_timeout_seconds
        /\ RefundCall(OwnerRefund(k)) = "RefundNotAllowed"

C11_Step ==
    /\ \A k \in DOMAIN requests' \ DOMAIN requests :
          IF requests'[k].payment_mode = "SOL"
          THEN /\ requests'[k].paid_amount = vault' - vault
               /\ vault_token' = vault_token
          ELSE /\ requests'[k].paid_amount = vault_token' - vault_token
               /\ vault' = vault
    /\ \A k \in DOMAIN requests \cap DOMAIN requests' :
          /\ requests'[k].paid_amount = requests[k].paid_amount
          /\ requests'[k].payment_mode = requests[k].payment_mode
    /\ (result'.op = "refund" /\ result'.key \in DOMAIN requests \ DOMAIN requests') =>
          LET request == requests[result'.key]
          IN  /\ result'.code = "Ok"
              /\ request.paid_amount > 0
              /\ IF request.payment_mode = "SOL"
                 THEN /\ vault - vault' = request.paid_amount
                      /\ vault_token' = vault_token
                 ELSE /\ vault_token - vault_token' = request.paid_amount
                      /\ vault' = vault

\* C11: the paid_amount and payment_mode of a record are what the vault
\* received when the record was created, no later operation changes them,
\* and a refund that returns Ok moves exactly paid_amount out of the vault
\* in that currency (lamports for SOL, the token account for USDT).
C11_RefundReturnsPayment == [][C11_Step]_vars

\* A refund returned Ok and the vault holds what it held before the request
C11_Witness ==
    /\ result.op = "refund" /\ result.code = "Ok"
    /\ history[result.key].refunded = 1
    /\ vault = MIN_RENT + VaultFunding
    /\ vault_token = 0

\* C12: a reveal signed by anyone but the VRF identity fails, whatever the
\* record and the randomness (a failed instruction changes no account);
\* every reveal that returned Ok was signed by the VRF identity.
C12_RevealOnlyByVrfIdentity ==
    /\ \A k \in DOMAIN history, signer \in Signers \ {VRF_PROGRAM_IDENTITY},
          randomness \in Entropies :
            ~ConsumeLotteryRandomnessOutcome(signer, k, randomness).ok
    /\ result.op = "consume_lottery_randomness" => result.signer = VRF_PROGRAM_IDENTITY

\* A Pending record: the reveal is accepted from the VRF identity and
\* rejected from the record's owner and from the administrator
C12_Witness ==
    \E k \in DOMAIN requests, randomness \in Entropies :
        /\ requests[k].status = "Pending"
        /\ ConsumeLotteryRandomnessOutcome(VRF_PROGRAM_IDENTITY, k, randomness).ok
        /\ ~ConsumeLotteryRandomnessOutcome(Owner(k), k, randomness).ok
        /\ ~ConsumeLotteryRandomnessOutcome(ADMIN, k, randomness).ok

\* ---------------------------------------------------------------------
\* Properties of the prize pool registry and the administration
\* ---------------------------------------------------------------------

\* C13: in every state the administration reaches, active_pool_count is the
\* number of entries of active_pool_indices other than 255, and those
\* entries are exactly the positions 0..active_pool_count-1.
C13_ActiveListPacked ==
    ConfigInitialized(config) =>
        \A i \in 0..(MAX_PRIZE_POOLS - 1) :
            (i < config.active_pool_count) <=> (config.active_pool_indices[i] # EMPTY_SLOT)

\* C14: under add and remove alone, however many pools were added, no
\* identifier is assigned to two pools, alive together or one after the other.
C14_IdentifiersNeverReused == \A i \in 0..U8_MAX : assigned[i] <= 1

\* The step is an administrative instruction op that returned Ok
AdminOk(op) == admin_ops' = admin_ops + 1 /\ result'.op = op

C15_Step ==
    (ConfigInitialized(config) /\ ConfigInitialized(config')) =>
        /\ config'.prize_pool_count >= config.prize_pool_count
        /\ AdminOk("add_prize_pool") => config'.prize_pool_count = config.prize_pool_count + 1
        /\ (AdminOk("remove_prize_pool") \/ AdminOk("update_prize_pool")) =>
              config'.prize_pool_count = config.prize_pool_count

\* C15: no instruction makes prize_pool_count smaller: an add makes it one
\* larger, remove and update leave it as it is, and migrate_config and the
\* other instructions never write a smaller value.
C15_CounterNeverDecreases == [][C15_Step]_vars

\* The active identifiers, in the order of the list
ActiveList(cfg) == [i \in 1..cfg.active_pool_count |-> cfg.active_pool_indices[i - 1]]

C16_Step ==
    AdminOk("remove_prize_pool") =>
        LET x == result'.event[1].index
            n == config.active_pool_count
            Survives(v) == v # x
        IN  /\ x \in ActiveIds(config)
            /\ DOMAIN prize_pools' = DOMAIN prize_pools \ {x}
            /\ \A k \in DOMAIN prize_pools' : prize_pools'[k] = prize_pools[k]
            /\ config'.active_pool_count = n - 1
            /\ ActiveList(config') = SelectSeq(ActiveList(config), Survives)
            /\ \A i, j \in 1..(n - 1) : i # j => ActiveList(config')[i] # ActiveList(config')[j]
            /\ \A i \in (n - 1)..(MAX_PRIZE_POOLS - 1) :
                  config'.active_pool_indices[i] = EMPTY_SLOT

\* C16: a remove of the active pool x that returns Ok closes that pool
\* account and leaves every other pool account as it was (its index too);
\* the active list afterwards is the list before without x, in the same
\* order at positions 0..count-2, without duplicates, active_pool_count is
\* one less and the vacated last position holds 255.
C16_RemoveKeepsSurvivors == [][C16_Step]_vars

\* A pool was removed from the middle of a list of 49: the 24 pools after
\* it moved one position down
C16_Witness ==
    /\ result.op = "remove_prize_pool" /\ admin_ops = 1
    /\ result.event[1].index = 24
    /\ config.active_pool_count = MAX_PRIZE_POOLS - 2
    /\ config.active_pool_indices[23] = 23
    /\ config.active_pool_indices[24] = 25
    /\ config.active_pool_indices[MAX_PRIZE_POOLS - 3] = MAX_PRIZE_POOLS - 2
    /\ 24 \notin DOMAIN prize_pools

C17_Step ==
    AdminOk("add_prize_pool") =>
        LET index == config.prize_pool_count
            active_pos == config.active_pool_count
        IN  /\ index \notin DOMAIN prize_pools
            /\ DOMAIN prize_pools' = DOMAIN prize_pools \cup {index}
            /\ prize_pools'[index].index = index
            /\ config'.active_pool_indices[active_pos] = index
            /\ \A i \in 0..(active_pos - 1) :
                  config'.active_pool_indices[i] = config.active_pool_indices[i]
            /\ config'.active_pool_count = active_pos + 1
            /\ config'.prize_pool_count = index + 1

\* C17: an add that returns Ok creates the pool account whose index is the
\* value prize_pool_count had before the call, writes that index at position
\* active_pool_count of the active list, leaves the entries before it as
\* they were, and makes active_pool_count and prize_pool_count one larger.
C17_AddAppends == [][C17_Step]_vars

\* An add as the instruction is called
AddCall(signer, in, overflow_checks) == AddPrizePoolOutcome(signer, in.swap_pool, in.pool_type, in.name, overflow_checks)

\* C18: with active_pool_count at MAX_PRIZE_POOLS every add fails (a failed
\* instruction changes no account), and it fails with MaxPrizePoolsReached
\* when the administrator calls it and the new pool's address is free, that
\* is when the call gets as far as the handler; active_pool_count is never
\* above MAX_PRIZE_POOLS.
C18_AddFailsAtCapacity ==
    /\ ConfigInitialized(config) => config.active_pool_count <= MAX_PRIZE_POOLS
    /\ (ConfigInitialized(config) /\ config.active_pool_count = MAX_PRIZE_POOLS) =>
          \A signer \in Signers, in \in AddPrizePoolInputs, overflow_checks \in BOOLEAN :
              /\ ~AddCall(signer, in, overflow_checks).ok
              /\ (signer = config.admin /\ config.prize_pool_count \notin DOMAIN prize_pools) =>
                    AddCall(signer, in, overflow_checks).err = "MaxPrizePoolsReached"

\* The fiftieth pool was added: the next add by the administrator reaches
\* the handler and is refused there
C18_Witness ==
    /\ result.op = "add_prize_pool" /\ admin_ops = 1
    /\ config.active_pool_count = MAX_PRIZE_POOLS
    /\ config.active_pool_indices[MAX_PRIZE_POOLS - 1] = MAX_PRIZE_POOLS - 1
    /\ \A in \in AddPrizePoolInputs :
          AddCall(ADMIN, in, TRUE) = Err("MaxPrizePoolsReached")

\* Every administrative call of signer, but initialize, fails
AdminCallsFail(signer) ==
    /\ \A in \in AddPrizePoolInputs, overflow_checks \in BOOLEAN :
          ~AddCall(signer, in, overflow_checks).ok
    /\ \A key \in PoolKeyInputs : ~RemovePrizePoolOutcome(signer, key).ok
    /\ \A key \in PoolKeyInputs, in \in UpdatePrizePoolInputs :
          ~UpdatePrizePoolOutcome(signer, key, in.swap_pool, in.pool_type, in.name).ok
    /\ \A amount \in WithdrawSolInputs : ~WithdrawSolOutcome(signer, amount).ok
    /\ \A amount \in WithdrawTokenInputs : ~WithdrawTokenOutcome(signer, amount).ok
    /\ \A prize_pool_count \in MigrateConfigInputs :
          ~MigrateConfigOutcome(signer, prize_pool_count).ok
    /\ ~CloseConfigOutcome(signer).ok

\* C19: add, remove and update of a prize pool, withdraw_sol, withdraw_token,
\* migrate_config and close_config fail for every signer that is not the
\* administrator of the configuration record (a failed instruction changes
\* no account).
C19_AdminOnly == \A signer \in Signers : signer # config.admin => AdminCallsFail(signer)

\* The administrator withdrew from the vault; a remove, an update, a
\* migration and a close are open to the administrator and to no one else
C19_Witness ==
    /\ result.op = "withdraw_sol" /\ result.signer = ADMIN /\ config.admin = ADMIN
    /\ vault = MIN_RENT
    /\ \E key \in PoolKeyInputs :
          /\ RemovePrizePoolOutcome(ADMIN, key).ok
          /\ UpdatePrizePoolOutcome(ADMIN, key, None, None, None).ok
    /\ MigrateConfigOutcome(ADMIN, 0).ok
    /\ CloseConfigOutcome(ADMIN).ok
    /\ \A signer \in Signers \ {ADMIN} : AdminCallsFail(signer)

\* The reveal of the Pending record at key by the VRF identity
RevealCall(key, randomness) == ConsumeLotteryRandomnessOutcome(VRF_PROGRAM_IDENTITY, key, randomness)

\* C20: whatever the registry add and remove have left and whatever the
\* randomness, the reveal of a Pending record returns Ok and writes a
\* selected_pool_index that is one of the first active_pool_count entries of
\* the active list, or 0 when no pool is active.
C20_SelectedPoolIsActive ==
    \A key \in DOMAIN requests, randomness \in Entropies \cup {[i \in 0..31 |-> 255]} :
        requests[key].status = "Pending" =>
            /\ RevealCall(key, randomness).ok
            /\ RevealCall(key, randomness).val.status = "Revealed"
            /\ IF config.active_pool_count > 0
               THEN RevealCall(key, randomness).val.selected_pool_index \in ActiveIds(config)
               ELSE RevealCall(key, randomness).val.selected_pool_index = 0

\* A record was revealed against the list of 49 pools: the randomness picked
\* position 499 % 49 = 9 of it
C20_Witness ==
    /\ result.op = "consume_lottery_randomness" /\ result.code = "Ok"
    /\ config.active_pool_count = MAX_PRIZE_POOLS - 1
    /\ requests[result.key].status = "Revealed"
    /\ requests[result.key].selected_pool_index = config.active_pool_indices[9]
    /\ config.active_pool_indices[9] = 9

\* 256^j modulo m
RECURSIVE Pow256Mod(_, _)
Pow256Mod(j, m) == IF j = 0 THEN 1 % m ELSE (Pow256Mod(j - 1, m) * 256) % m

\* The little-endian number in bytes 8..15, modulo m, byte by byte
PoolEntropyMod(bytes, m) ==
    (bytes[8] * Pow256Mod(0, m) + bytes[9] * Pow256Mod(1, m) + bytes[10] * Pow256Mod(2, m)
        + bytes[11] * Pow256Mod(3, m) + bytes[12] * Pow256Mod(4, m) + bytes[13] * Pow256Mod(5, m)
        + bytes[14] * Pow256Mod(6, m) + bytes[15] * Pow256Mod(7, m)) % m

\* process_vrf_result has returned Ok
Returned == calc.fn = "process_vrf_result" /\ calc.ret # << >> /\ calc.ret[1].ok

TierRollOf(bytes) ==
    (bytes[0] * Pow256Mod(0, 1000000) + bytes[1] * Pow256Mod(1, 1000000)
        + bytes[2] * Pow256Mod(2, 1000000) + bytes[3] * Pow256Mod(3, 1000000)
        + bytes[4] * Pow256Mod(4, 1000000) + bytes[5] * Pow256Mod(5, 1000000)
        + bytes[6] * Pow256Mod(6, 1000000) + bytes[7] * Pow256Mod(7, 1000000)) % 1000000

\* The loop of process_vrf_result has passed a card: card_random is the
\* value derived for it, won its reward
CardDone == calc.fn = "process_vrf_result" /\ calc.card_random # << >>

\* C22: the reward of every card lies in [5,000,000, 99,900,000]; by tier
\* roll: below 150,000 in [5,000,000, 7,000,000]; 150,000..649,999 in
\* [7,000,000, 14,000,000]; 650,000..949,999 in [14,000,000, 49,900,000];
\* from 950,000 on in [50,000,000, 99,900,000].
C22_RewardInTierRange ==
    CardDone =>
        LET roll == TierRollOf(calc.card_random[1])
        IN  /\ calc.won >= 5000000 /\ calc.won <= 99900000
            /\ roll < 150000 => (calc.won >= 5000000 /\ calc.won <= 7000000)
            /\ (roll >= 150000 /\ roll <= 649999) =>
                   (calc.won >= 7000000 /\ calc.won <= 14000000)
            /\ (roll >= 650000 /\ roll <= 949999) =>
                   (calc.won >= 14000000 /\ calc.won <= 49900000)
            /\ roll >= 950000 => (calc.won >= 50000000 /\ calc.won <= 99900000)

\* The card's roll is the threshold 150,000 itself and the step entropy 70:
\* the reward is the upper end of the second tier
C22_Witness ==
    /\ CardDone
    /\ calc.card_random[1] = build_random_bytes(150000, 70, 0)
    /\ calc.randomness = SeedFor(build_random_bytes(150000, 70, 0))
    /\ TierRollOf(calc.card_random[1]) = 150000
    /\ calc.won = 14000000

\* (minimum, steps) of the tier a roll falls in
TierOfRoll(roll) ==
    IF roll < 150000 THEN <<5000000, 21>>
    ELSE IF roll < 650000 THEN <<7000000, 71>>
    ELSE IF roll < 950000 THEN <<14000000, 360>>
    ELSE <<50000000, 500>>

\* C23: the reward of a card is the minimum of its tier plus (step entropy
\* modulo the tier's steps) times 100,000, with (minimum, steps) =
\* (5,000,000, 21), (7,000,000, 71), (14,000,000, 360), (50,000,000, 500);
\* tier roll 100,000 with step entropy 0 gives exactly 5,000,000.
C23_RewardFormula ==
    CardDone =>
        LET tier == TierOfRoll(TierRollOf(calc.card_random[1]))
        IN  /\ calc.won = tier[1] + PoolEntropyMod(calc.card_random[1], tier[2]) * 100000
            /\ calc.card_random[1] = build_random_bytes(100000, 0, 0) => calc.won = 5000000

\* Roll 100,000 with step entropy 0 gave 5,000,000
C23_Witness ==
    /\ CardDone
    /\ calc.card_random[1] = build_random_bytes(100000, 0, 0)
    /\ calc.won = 5000000
    /\ calc.total_won_usd = ToU64(5000000)

\* Randomness a reveal may deliver
RevealEntropies == Entropies \cup {[i \in 0..31 |-> 255]}

\* C24: whenever and by whomever a reveal is accepted, and whatever the
\* vault and the clock show, the total reward and the selected pool it
\* writes are the values of one function of the randomness, the number of
\* cards, active_pool_count and the active list.
C24_RevealDeterministic ==
    \A signer \in Signers, key \in DOMAIN requests, randomness \in RevealEntropies :
        LET out == ConsumeLotteryRandomnessOutcome(signer, key, randomness)
            fixed == process_vrf_result(randomness, requests[key].amount_of_cards,
                                        config.active_pool_count, config.active_pool_indices)
        IN  out.ok =>
               /\ out.val.total_won_usd = fixed.total_won_usd
               /\ out.val.selected_pool_index = fixed.selected_pool_index

\* A record was revealed after time had passed: it holds the values of the
\* function for one of the randomness values
C24_Witness ==
    /\ result.op = "consume_lottery_randomness" /\ result.code = "Ok"
    /\ clock.unix_timestamp > 0
    /\ requests[result.key].status = "Revealed"
    /\ requests[result.key].revealed_at = clock.unix_timestamp
    /\ \E randomness \in RevealEntropies :
          LET fixed == process_vrf_result(randomness, requests[result.key].amount_of_cards,
                                          config.active_pool_count, config.active_pool_indices)
          IN  /\ requests[result.key].total_won_usd = fixed.total_won_usd
              /\ requests[result.key].selected_pool_index = fixed.selected_pool_index

\* C25: the values derive_random_result gives the cards of one request
\* (indices 0..99 at most) from the same randomness are pairwise different.
C25_DerivedValuesDiffer ==
    calc.fn = "process_vrf_result" =>
        \A i, j \in 1..Len(calc.derived) : i # j => calc.derived[i] # calc.derived[j]

\* All 100 cards of a request have their values, derived from the all-0xff
\* randomness; the values of cards 0 and 64 differ in byte 1
C25_Witness ==
    /\ calc.fn = "process_vrf_result"
    /\ calc.randomness = [i \in 0..31 |-> 255]
    /\ Len(calc.derived) = 100
    /\ \A i \in 1..100 : calc.derived[i] = derive_random_result(calc.randomness, i - 1)
    /\ calc.derived[1][1] # calc.derived[65][1]

\* The rewards of the first n of the derived values, added up in units of
\* 100,000
RECURSIVE RewardSteps(_, _)
RewardSteps(derived, n) ==
    IF n = 0 THEN 0
    ELSE RewardSteps(derived, n - 1) + map_to_tiered_distribution(derived[n]) \div 100000

\* C26: after n passes of the loop the total is the sum of the rewards of
\* the values derived for cards 0..n-1 (so each pass adds the reward of its
\* card), it lies in [n * 5,000,000, n * 99,900,000], the overflow check
\* has not fired, and the total returned for a request of n cards is that
\* sum.
C26_TotalIsSumOfRewards ==
    calc.fn = "process_vrf_result" =>
        LET n == calc.i
            steps == RewardSteps(calc.derived, n)
        IN  /\ calc.ret # << >> => calc.ret[1].ok
            /\ Len(calc.derived) = n
            /\ n >= 1 =>
                   /\ calc.derived[n] = derive_random_result(calc.randomness, n - 1)
                   /\ calc.won = map_to_tiered_distribution(calc.derived[n])
                   /\ steps = RewardSteps(calc.derived, n - 1) + calc.won \div 100000
            /\ calc.total_won_usd = <<0, steps, 0, 0>>
            /\ steps >= n * 50 /\ steps <= n * 999
            /\ Returned =>
                   /\ n = calc.amount_of_cards
                   /\ calc.ret[1].val.total_won_usd = calc.total_won_usd
                   /\ n <= 2 =>
                          calc.total_won_usd =
                              ToU64(process_vrf_result(calc.randomness, n,
                                                       config.active_pool_count,
                                                       config.active_pool_indices).total_won_usd)

\* A request of 100 cards has returned: its total is the sum of the
\* hundred rewards, more than the hundredfold of the smallest reward and
\* more than the total after 99 cards
C26_Witness ==
    /\ Returned
    /\ calc.amount_of_cards = 100
    /\ calc.ret[1].val.total_won_usd = <<0, RewardSteps(calc.derived, 100), 0, 0>>
    /\ RewardSteps(calc.derived, 100) > 100 * 50
    /\ RewardSteps(calc.derived, 100) > RewardSteps(calc.derived, 99)

\* Calls of request_mint with every combination of a good or bad number of
\* cards, slot and queue
CreateCalls ==
    {[RequestMintBase(user) EXCEPT !.amount_of_cards = n, !.payment_mode = m,
                                   !.request_slot = s, !.oracle_queue = q] :
        user \in Users, n \in {0, 1, 100, 101}, m \in PaymentModes,
        s \in RequestSlotInputs, q \in {ORACLE_QUEUE_DEVNET, "other_queue"}}

CreateCode(in) ==
    RequestMintOutcome(in.user, in.amount_of_cards, in.payment_mode, in.request_slot,
                       in.oracle_queue, in.price_update, in.accts, in.cpi_ok)

\* The three conditions of the claim on a call
CountInRange(n) == n >= 1 /\ n <= 100
SlotInWindow(s) == (IF clock.slot >= 10 THEN clock.slot - 10 ELSE 0) <= s /\ s <= clock.slot
QueueConfigured(q) == q = config.oracle_queue

\* A call the accounts of which load (the program is not paused, no record
\* exists at the address) is rejected with InvalidCardAmount when the
\* number of cards is outside 1..100, else with InvalidSlot when the slot
\* is outside the window, else with InvalidOracleQueue when the queue is
\* not the configured one; an accepted call meets all three conditions
C27_Rejections ==
    \A in \in CreateCalls :
        LET code == CreateCode(in)
            loaded == code \notin {"AccountNotInitialized", "ProgramPaused", "AccountAlreadyInUse"}
        IN  /\ (loaded /\ ~CountInRange(in.amount_of_cards)) => code = "InvalidCardAmount"
            /\ (loaded /\ CountInRange(in.amount_of_cards) /\ ~SlotInWindow(in.request_slot))
                   => code = "InvalidSlot"
            /\ (loaded /\ CountInRange(in.amount_of_cards) /\ SlotInWindow(in.request_slot)
                    /\ ~QueueConfigured(in.oracle_queue))
                   => code = "InvalidOracleQueue"
            /\ code = "Ok" => (/\ CountInRange(in.amount_of_cards)
                               /\ SlotInWindow(in.request_slot)
                               /\ QueueConfigured(in.oracle_queue))

\* A step in which a record appears or the vault receives funds is an
\* accepted create: the record is new and its number of cards and slot meet
\* the conditions
C27_Step ==
    (\/ DOMAIN requests' # DOMAIN requests /\ DOMAIN requests \subseteq DOMAIN requests'
     \/ vault' > vault
     \/ vault_token' > vault_token)
        => /\ result'.op = "request_mint" /\ result'.code = "Ok"
           /\ result'.key \in DOMAIN requests' \ DOMAIN requests
           /\ CountInRange(requests'[result'.key].amount_of_cards)
           /\ SlotInWindow(requests'[result'.key].vrf_request_slot)
           /\ \E in \in RequestMintInputs :
                  /\ CreateCode(in) = "Ok"
                  /\ QueueConfigured(in.oracle_queue)
                  /\ result'.key = MintRequestPda(in.user, in.request_slot)

StakeUsdt(n) == n * 10 * 1000000
StakeLamports(price_update, n) ==
    IF price_update.price = 1000 /\ price_update.exponent = 0 THEN n * 10000000
    ELSE (n * 20000000) \div 3

\* A step that adds a record is the accepted request_mint of some call: the
\* vault of the payment currency grows by exactly the stake, the other
\* vault is untouched, and the record is Pending with total reward 0,
\* reveal time 0, the call's number of cards and currency, and the amount
\* transferred as paid_amount
C28_Step ==
    (DOMAIN requests' # DOMAIN requests /\ DOMAIN requests \subseteq DOMAIN requests')
        => \E in \in RequestMintInputs :
              LET key == MintRequestPda(in.user, in.request_slot)
                  rec == requests'[key]
                  stake == IF in.payment_mode = "USDT" THEN StakeUsdt(in.amount_of_cards)
                           ELSE StakeLamports(in.price_update, in.amount_of_cards)
              IN  /\ CreateCode(in) = "Ok"
                  /\ DOMAIN requests' = DOMAIN requests \cup {key}
                  /\ result'.op = "request_mint" /\ result'.code = "Ok" /\ result'.key = key
                  /\ result'.signer = in.user
                  /\ IF in.payment_mode = "USDT"
                     THEN vault_token' = vault_token + stake /\ vault' = vault
                     ELSE vault' = vault + stake /\ vault_token' = vault_token
                  /\ rec.user = in.user
                  /\ rec.status = "Pending"
                  /\ rec.total_won_usd = 0
                  /\ rec.revealed_at = 0
                  /\ rec.amount_of_cards = in.amount_of_cards
                  /\ rec.payment_mode = in.payment_mode
                  /\ rec.paid_amount = stake

C28_WitnessSol ==
    /\ result.op = "request_mint" /\ result.code = "Ok"
    /\ requests[result.key].payment_mode = "SOL"
    /\ requests[result.key].paid_amount = 6666666
    /\ vault = MIN_RENT + VaultFunding + 6666666

\* calculate_min_output has returned
MinOutputDone == calc.fn = "calculate_min_output" /\ calc.ret # << >>

\* C29: calculate_min_output returns floor(expected_output * (10000 -
\* slippage_bps) / 10000), never more than expected_output, and 970 for
\* 1000 at the 300 basis points the claim path passes; when the product
\* does not fit 64 bits (at 300 basis points: expected_output above
\* 1,901,726,193,165,933) it returns MathOverflow, and only then.
C29_MinOutput ==
    MinOutputDone =>
        LET e == calc.expected_output
            bps == calc.slippage_bps
            ret == calc.ret[1]
        IN  /\ DEFAULT_SLIPPAGE_BPS = 300
            /\ ret.ok =>
                   /\ ~GreaterU64(MulU64(ret.val, 10000), MulU64(e, 10000 - bps), 4)
                   /\ GreaterU64(MulU64(AddU64(ret.val, ToU64(1)), 10000),
                                 MulU64(e, 10000 - bps), 4)
                   /\ ~GreaterU64(ret.val, e, 4)
            /\ ~ret.ok => ret.err = "MathOverflow"
            /\ bps = 300 => (ret.ok <=> ~GreaterU64(e, <<65933, 61931, 90172, 1>>, 4))
            /\ (e = ToU64(1000) /\ bps = 300) => ret = Ok(ToU64(970))
            /\ (e[3] = 0 /\ e[4] = 0 /\ e[2] < 21474) =>
                   ret = Ok(ToU64(calculate_min_output(e[1] + e[2] * LIMB, bps).val))

\* The smallest expected output whose product with 9700 exceeds 64 bits
\* was passed: MathOverflow
C29_Witness ==
    /\ MinOutputDone
    /\ calc.expected_output = <<65934, 61931, 90172, 1>>
    /\ calc.slippage_bps = 300
    /\ calc.ret[1] = Err("MathOverflow")

\* 1000 at 300 basis points gave 970
C29_WitnessSmall ==
    /\ MinOutputDone
    /\ calc.expected_output = ToU64(1000) /\ calc.slippage_bps = 300
    /\ calc.ret[1] = Ok(ToU64(970))

\* The claim in progress returns Ok out of a swap
SwapClaimOk(router) ==
    /\ pc = router
    /\ result'.op = "claim" /\ result'.code = "Ok"
    /\ pc' = "idle"

\* A claim that returns Ok out of a swap, by Jupiter or by Raydium, has
\* raised the participant's token account by the minimum output at least
C30_Step ==
    (SwapClaimOk("jupiter_swap") \/ SwapClaimOk("raydium_swap"))
        => user_token' - user_token >= frame.minimum_amount_out

\* C30: on every claim paid through a swap, by either venue, the balance
\* of the destination token account after the invocation less the balance
\* before it is at least the computed minimum output whenever the claim
\* returns Ok.
C30_SwapOutputMeasured == [][C30_Step]_vars

\* The same for the claims paid through Jupiter alone
C30_JupiterStep ==
    SwapClaimOk("jupiter_swap") => user_token' - user_token >= frame.minimum_amount_out

C30_JupiterOutputMeasured == [][C30_JupiterStep]_vars

\* A claim paid through Jupiter has returned Ok: the participant holds the
\* minimum output of 970 for the expected 1000
C30_JupiterWitness ==
    /\ result.op = "claim" /\ result.code = "Ok"
    /\ result.event # << >>
    /\ result.event[1].swap_router = <<"Jupiter">>
    /\ user_token = 970

\* A claim paid through Raydium has returned Ok with less than the minimum
\* output in the participant's account
C30_RaydiumShort ==
    /\ result.op = "claim" /\ result.code = "Ok"
    /\ result.event # << >>
    /\ result.event[1].swap_router = <<"Raydium">>
    /\ user_token = 969

\* What the Jupiter invocation of the claim in progress may do
JupiterVenueOutputs == {frame.minimum_amount_out - 1, frame.minimum_amount_out}
JupiterVenueSpends == {s \in {0, frame.amount, frame.amount + 1} : s <= frame.vault_wsol}

\* The claim in progress fails with this code when the Jupiter invocation
\* has spent more than amount_in
OverspendFailsWith(code) ==
    pc = "jupiter_swap" =>
        \A cpi_ok \in BOOLEAN, actual_output \in JupiterVenueOutputs,
           input_spent \in JupiterVenueSpends :
            input_spent > frame.amount =>
                JupiterSwapCode(cpi_ok, actual_output, input_spent) = code

\* A claim that returns Ok out of a swap has taken at most amount_in from
\* the vault's WSOL account during the invocation; a claim that fails out
\* of a swap leaves records and balances as they were
C31_Step ==
    /\ (SwapClaimOk("jupiter_swap") \/ SwapClaimOk("raydium_swap"))
           => frame.vault_wsol - vault_wsol' <= frame.amount
    /\ (pc \in {"jupiter_swap", "raydium_swap"} /\ result'.code # "Ok")
           => /\ result'.op = "claim"
              /\ UNCHANGED <<requests, vault, vault_token, vault_wsol, user_token, history>>

SwapCalls ==
    {[ClaimJupiterBase(signer, key) EXCEPT !.swap_router = Some(router), !.swap_data = d,
                                           !.remaining = r] :
        signer \in Users, key \in DOMAIN requests, router \in SwapRouters,
        d \in SwapDataInputs
                \cup {Some(JUPITER_SHARED_ACCOUNTS_ROUTE_DISCRIMINATOR),
                      Some(JUPITER_EXACT_OUT_ROUTE_DISCRIMINATOR \o <<7, 7>>),
                      Some(<<229, 100, 247, 91, 30, 192, 179>>)},
        r \in RemainingAccountInputs}

\* The payload has eight bytes at least and begins with one of the three
\* tags
KnownTag(d) ==
    /\ d # << >>
    /\ Len(d[1]) >= 8
    /\ SubSeq(d[1], 1, 8) \in {<<229, 100, 247, 91, 30, 192, 179, 237>>,
                               <<193, 32, 155, 51, 65, 214, 156, 129>>,
                               <<208, 51, 239, 151, 123, 43, 237, 92>>}

\* A claim reaches the invocation of Jupiter only with the Jupiter program
\* and a payload of a known tag, and the one of Raydium (by way of the
\* wrap) only with one of the two Raydium programs; a call that a known tag
\* or the venue's program alone would have carried to the invocation fails
\* with the given error, the record untouched
VenueChecks(payload_err, jupiter_err, raydium_err) ==
    \A in \in SwapCalls :
        LET out == ClaimCall(in)
            tagged == ClaimCall([in EXCEPT !.swap_data = Some(JUPITER_ROUTE_DISCRIMINATOR)])
            jupiter == ClaimCall([in EXCEPT !.remaining.program = "jupiter_v6"])
            raydium == ClaimCall([in EXCEPT !.remaining.program = "raydium_cpmm"])
        IN  /\ (out.ok /\ out.pc = "jupiter_swap") =>
                   (in.remaining.program = "jupiter_v6" /\ KnownTag(in.swap_data))
            /\ (out.ok /\ out.pc = "wsol_wrap") =>
                   in.remaining.program \in {"raydium_cpmm", "raydium_cpmm_devnet"}
            /\ (tagged.ok /\ tagged.pc = "jupiter_swap" /\ in.swap_data # << >>
                    /\ ~KnownTag(in.swap_data))
                   => (~out.ok /\ out.err = payload_err)
            /\ (jupiter.ok /\ jupiter.pc = "jupiter_swap"
                    /\ in.remaining.program # "jupiter_v6")
                   => (~out.ok /\ out.err = jupiter_err)
            /\ (raydium.ok /\ raydium.pc = "wsol_wrap"
                    /\ in.remaining.program \notin {"raydium_cpmm", "raydium_cpmm_devnet"})
                   => (~out.ok /\ out.err = raydium_err)

\* The claim in progress is at a venue the allow-list holds
VenueOfFrameListed ==
    /\ pc = "jupiter_swap" => frame.program = "jupiter_v6"
    /\ pc \in {"wsol_wrap", "raydium_swap"} =>
          frame.program \in {"raydium_cpmm", "raydium_cpmm_devnet"}

\* C32 as stated: a venue is invoked only after its program matched the
\* allow-list and, for Jupiter, only with a payload of eight bytes or more
\* that begins with a known tag; otherwise the claim fails with
\* InvalidSwapData, InvalidJupiterProgram or InvalidRaydiumProgram and the
\* venue is not called.
C32_VenueErrorsAsNamed ==
    VenueOfFrameListed /\ VenueChecks("InvalidSwapData", "InvalidJupiterProgram", "InvalidRaydiumProgram")

\* C32, the errors as the handler returns them: a venue is invoked only
\* after its program matched the allow-list and, for Jupiter, only with a
\* payload of eight bytes or more that begins with a known tag; otherwise
\* the venue is not called and the claim fails, with InvalidRaydiumProgram
\* for Raydium and with JupiterSwapFailed for Jupiter, where the handler
\* replaces the InvalidSwapData and InvalidJupiterProgram of
\* swap_via_jupiter.
C32_VenueAllowListed ==
    VenueOfFrameListed /\ VenueChecks("JupiterSwapFailed", "JupiterSwapFailed", "InvalidRaydiumProgram")

\* A claim is at the invocation of Jupiter while the record is still in
\* its account: the same call with a payload of an unknown tag, with a
\* short one, and with another program is rejected
C32_Witness ==
    /\ pc = "jupiter_swap"
    /\ frame.program = JUPITER_PROGRAM_ID
    /\ \E in \in SwapCalls :
          /\ in.key = frame.key /\ in.signer = frame.signer
          /\ ClaimCall(in).ok /\ ClaimCall(in).pc = "jupiter_swap"
          /\ ~ClaimCall([in EXCEPT !.swap_data = Some(<<1, 2, 3, 4, 5, 6, 7, 8>>)]).ok
          /\ ~ClaimCall([in EXCEPT !.swap_data = Some(<<229, 100, 247>>)]).ok
          /\ ~ClaimCall([in EXCEPT !.remaining.program = "unknown_program"]).ok
          /\ JupiterPreChecks(<<1, 2, 3, 4, 5, 6, 7, 8>>, in.remaining) = "InvalidSwapData"

\* A claim is at the invocation of Raydium, its program one of the two
C32_WitnessRaydium ==
    /\ pc = "raydium_swap"
    /\ frame.program = RAYDIUM_CP_SWAP_PROGRAM_DEVNET

\* ---------------------------------------------------------------------
\* Two requests side by side: the records of two participants, both
\* created in the first slot and paid in the native currency, and every
\* reveal, claim and refund on either of them in every order
\* ---------------------------------------------------------------------
PairKeys == {MintRequestPda(user, 0) : user \in Users}

PairStake == get_lamports_for_usd(FreshPrice, TARGET_USD_AMOUNT).val

\* The deposit the vault holds besides the two stakes: either reward of the
\* two entropies can be paid from it, not both
PairFunding == get_lamports_for_micro_usd(FreshPrice, TIER1_MIN_USD).val

PairInit ==
    /\ clock = [unix_timestamp |-> 0, slot |-> 0]
    /\ config = DeployedConfig
    /\ requests = [k \in PairKeys |-> NewMintRequest(k[1], 1, "SOL", PairStake, 0)]
    /\ vault = MIN_RENT + PairFunding + 2 * PairStake
    /\ vault_token = 0
    /\ vault_wsol = WsolFunding
    /\ pc = "idle"
    /\ frame = NoFrame
    /\ result = Outcome("request_mint", MintRequestPda("bob", 0), "bob", "Ok", "Pending", None)
    /\ history = [k \in PairKeys |-> [created |-> 1, revealed |-> 0, claimed |-> 0, refunded |-> 0]]
    /\ prize_pools = DeployedRegistry.prize_pools
    /\ assigned = DeployedRegistry.assigned
    /\ admin_ops = 0
    /\ calc = NoCalc
    /\ user_token = 0

PairNext ==
    \/ Tick
    \/ ConsumeLotteryRandomnessStep
    \/ ClaimBeginStep
    \/ ClaimSolTransferStep
    \/ ClaimJupiterSwapStep
    \/ ClaimWsolWrapStep
    \/ ClaimRaydiumSwapStep
    \/ RefundStep

PairSpec == PairInit /\ [][PairNext]_vars

LifecycleOps == {"consume_lottery_randomness", "claim", "refund"}

\* The record the step works on: the record of the claim in flight, or the
\* record named by the instruction that returned
ActKey ==
    IF pc' # "idle" THEN frame'.key ELSE IF pc # "idle" THEN frame.key ELSE result'.key

\* The step returns Ok from a reveal, a claim or a refund
Accepted == result'.op \in LifecycleOps /\ result'.code = "Ok" /\ pc' = "idle"

\* Every record but the one worked on, and the registry, are as before
OthersUntouched ==
    /\ \A k \in DOMAIN history \ {ActKey} :
          /\ history'[k] = history[k]
          /\ (k \in DOMAIN requests') = (k \in DOMAIN requests)
          /\ k \in DOMAIN requests => requests'[k] = requests[k]
    /\ config' = config
    /\ prize_pools' = prize_pools
    /\ assigned' = assigned

\* What every reveal, claim and refund on the other records returns is as
\* before the step, or is one of the codes in shared; what a reveal writes
\* is computed from the record, the registry and the clock alone
OthersAnswerAsBefore(shared) ==
    \A k \in DOMAIN history \ {ActKey} :
        /\ \A in \in ClaimInputs :
              in.key = k => ClaimError(in)' \in {ClaimError(in)} \cup shared
        /\ \A in \in RefundInputs :
              in.key = k => RefundCall(in)' \in {RefundCall(in)} \cup shared
        /\ \A signer \in Signers :
              ConsumeLotteryRandomnessAccounts(signer, k)'
                = ConsumeLotteryRandomnessAccounts(signer, k)

C33_WitnessBoth ==
    \E k1, k2 \in DOMAIN history :
        k1 # k2 /\ history[k1].claimed = 1 /\ history[k2].refunded = 1

\* The errors of the checks claim makes on the caller's arguments and
\* accounts of the Token path
ValidationCodes ==
    {"MissingExpectedOutput", "InvalidChoice", "MissingSwapAccounts",
     "InvalidRaydiumProgram", "JupiterSwapFailed"}

\* The call is turned down by one of those checks
FailedValidation(in) == ~ClaimCall(in).ok /\ ClaimCall(in).err \in ValidationCodes

\* One of the three checks ahead of the status write fails: no expected
\* output, no router, no remaining account
EarlyCheckFails(in) ==
    \/ ~IsSome(in.expected_token_output)
    \/ ~IsSome(in.swap_router)
    \/ in.remaining.len = 0

\* C34 as stated: every validation failure of claim is raised while the
\* status field of the record still has its value of before the call
C34_ValidatedBeforeWrite ==
    \A in \in SwapCalls \cup ClaimInputs :
        FailedValidation(in) => ClaimCall(in).status = StatusOf(in.key)

\* A claim that returned an error has changed no record
AbortKeepsRecords ==
    result'.op = "claim" /\ result'.code \notin {"Ok", "Invoking"} => requests' = requests

\* C34 (restated): the checks for a missing expected output, a missing
\* router and an empty account list are made before the status field is
\* written; the checks for a missing payload, too few swap accounts, the
\* venue program and the payload tag are made after it, the handler's copy
\* of the record reading Claimed; a claim that fails leaves every stored
\* record as it was
C34_ValidationAroundWrite ==
    /\ [](\A in \in SwapCalls \cup ClaimInputs :
            FailedValidation(in) =>
                ClaimCall(in).status = IF EarlyCheckFails(in) THEN StatusOf(in.key)
                                       ELSE "Claimed")
    /\ [][AbortKeepsRecords]_vars

\* On a Revealed record one call fails a check made before the status
\* write and another one a check made after it; a claim has failed after
\* its invocation
C34_Witness ==
    /\ \E in \in SwapCalls :
          FailedValidation(in) /\ EarlyCheckFails(in) /\ ClaimCall(in).status = "Revealed"
    /\ \E in \in SwapCalls :
          /\ FailedValidation(in) /\ ~EarlyCheckFails(in)
          /\ StatusOf(in.key) = "Revealed" /\ ClaimCall(in).status = "Claimed"
    /\ result.op = "claim" /\ result.code = "JupiterSwapFailed"

\* ---------------------------------------------------------------------
\* The price conversion on its own: get_lamports_for_micro_usd and
\* get_lamports_for_usd called with each amount against each price update
\* ---------------------------------------------------------------------
\* Amounts in micro-USD: nothing, the price of a card, the largest reward of
\* a hundred cards, 10^15, the two amounts either side of u64::MAX / 1000,
\* u64::MAX
OracleMicroUsd ==
    {<< >>,
     Dec(<<1, 0, 0, 0, 0, 0, 0, 0>>),
     Dec(<<9, 9, 9, 0, 0, 0, 0, 0, 0, 0>>),
     Dec(<<1, 0, 0, 0, 0, 0, 0, 0, 0, 0, 0, 0, 0, 0, 0, 0>>),
     Dec(<<1, 8, 4, 4, 6, 7, 4, 4, 0, 7, 3, 7, 0, 9, 5, 5, 1>>),
     Dec(<<1, 8, 4, 4, 6, 7, 4, 4, 0, 7, 3, 7, 0, 9, 5, 5, 2>>),
     U64_MAX_DEC}

\* Amounts in USD: a card, a hundred cards, the two amounts either side of
\* u64::MAX / 10^6, u64::MAX
OracleUsd ==
    {Dec(<<1, 0>>),
     Dec(<<1, 0, 0, 0>>),
     Dec(<<1, 8, 4, 4, 6, 7, 4, 4, 0, 7, 3, 7, 0, 9>>),
     Dec(<<1, 8, 4, 4, 6, 7, 4, 4, 0, 7, 3, 7, 1, 0>>),
     U64_MAX_DEC}

\* Price updates: prices 1, 3, 1000, 15,000,000,000, zero and -5, each with
\* the exponents 0, -8, 8, -12, -20 and -39, fresh or one second too old
OraclePriceUpdates ==
    {[price |-> magnitude, negative |-> negative, exponent |-> exponent, age |-> age] :
        magnitude \in {Dec(<<1>>), Dec(<<3>>), Dec(<<1, 0, 0, 0>>),
                       Dec(<<1, 5, 0, 0, 0, 0, 0, 0, 0, 0, 0>>)},
        negative \in {FALSE},
        exponent \in {0, -8, 8, -12, -20, -39},
        age \in {0, MAX_PRICE_AGE_SECONDS + 1}}
    \cup {[price |-> magnitude, negative |-> magnitude # << >>, exponent |-> -8,
           age |-> age] :
            magnitude \in {<< >>, Dec(<<5>>)}, age \in {0, MAX_PRICE_AGE_SECONDS + 1}}

\* Entry of either function
LamportsEntry(fn, price_update, amount) ==
    [fn |-> fn, price_update |-> price_update, amount |-> amount, ret |-> << >>]

OracleInit ==
    /\ clock = [unix_timestamp |-> 0, slot |-> 0]
    /\ config = DeployedConfig
    /\ prize_pools = DeployedRegistry.prize_pools
    /\ assigned = DeployedRegistry.assigned
    /\ requests = << >>
    /\ vault = MIN_RENT + VaultFunding
    /\ vault_token = 0
    /\ vault_wsol = WsolFunding
    /\ pc = "idle"
    /\ frame = NoFrame
    /\ result = Outcome("initialize", NoKey, ADMIN, "Ok", "NoAccount", None)
    /\ history = << >>
    /\ admin_ops = 0
    /\ user_token = 0
    /\ \E price_update \in OraclePriceUpdates :
          \/ \E amount \in OracleMicroUsd :
                calc = LamportsEntry("get_lamports_for_micro_usd", price_update, amount)
          \/ \E amount \in OracleUsd :
                calc = LamportsEntry("get_lamports_for_usd", price_update, amount)

GetLamportsForMicroUsd ==
    /\ calc.fn = "get_lamports_for_micro_usd"
    /\ calc.ret = << >>
    /\ calc' = [calc EXCEPT !.ret =
                   <<get_lamports_for_micro_usd_u128(calc.price_update, calc.amount)>>]
    /\ UNCHANGED <<clock, config, requests, vault, vault_token, vault_wsol, pc, frame, result,
                   history, prize_pools, assigned, admin_ops, user_token>>

\* The build decides what the product does when it does not fit
GetLamportsForUsd ==
    /\ calc.fn = "get_lamports_for_usd"
    /\ calc.ret = << >>
    /\ \E overflow_checks \in BOOLEAN :
          calc' = [calc EXCEPT !.ret =
                      <<get_lamports_for_usd_u64(calc.price_update, calc.amount,
                                                 overflow_checks)>>]
    /\ UNCHANGED <<clock, config, requests, vault, vault_token, vault_wsol, pc, frame, result,
                   history, prize_pools, assigned, admin_ops, user_token>>

OracleNext ==
    \/ GetLamportsForMicroUsd
    \/ GetLamportsForUsd

OracleSpec == OracleInit /\ [][OracleNext]_vars

\* The conversion has returned
LamportsDone == calc.fn \in {"get_lamports_for_micro_usd", "get_lamports_for_usd"} /\ calc.ret # << >>

\* The amount converted, in micro-USD
MicroUsdOf(c) ==
    IF c.fn = "get_lamports_for_usd" THEN MulPow10(c.amount, Log10(USD_PRECISION))
    ELSE c.amount

\* floor(micro_usd * 10^9 * 10^|exponent| / (price * 10^6)) for a price
\* above zero
ExactLamports(c) ==
    DecDivMod(MulPow10(MicroUsdOf(c), SOL_DECIMALS + Abs(c.price_update.exponent)),
              MulPow10(c.price_update.price, Log10(USD_PRECISION))).q

PricePositive(c) == ~c.price_update.negative /\ c.price_update.price # << >>

\* C35: the conversion returns exactly floor(micro_usd * 10^9 *
\* 10^|exponent| / (price * 10^6)), a value of 64 bits, or fails with
\* MathOverflow, PythPriceStale or PythPriceInvalid; it returns no
\* truncated or wrapped amount
C35_ExactOrError ==
    LamportsDone =>
        LET ret == calc.ret[1]
        IN  IF ret.ok
            THEN /\ PricePositive(calc)
                 /\ ret.val = ExactLamports(calc)
                 /\ DecLeq(ret.val, U64_MAX_DEC)
            ELSE ret.err \in {"MathOverflow", "PythPriceStale", "PythPriceInvalid"}

\* What does hold: the amount returned is the exact quotient whenever the
\* quotient and the amount in micro-USD fit 64 bits
C35_ExactWhenFits ==
    LamportsDone /\ calc.ret[1].ok /\ DecLeq(MicroUsdOf(calc), U64_MAX_DEC)
                 /\ DecLeq(ExactLamports(calc), U64_MAX_DEC)
        => calc.ret[1].val = ExactLamports(calc)

\* get_lamports_for_micro_usd has returned Ok with the low 64 bits of a
\* quotient that does not fit 64 bits
C35_Truncated ==
    /\ LamportsDone
    /\ calc.fn = "get_lamports_for_micro_usd"
    /\ calc.ret[1].ok
    /\ ~DecLeq(ExactLamports(calc), U64_MAX_DEC)
    /\ calc.ret[1].val # ExactLamports(calc)

\* get_lamports_for_usd has returned Ok for an amount whose product with
\* USD_PRECISION does not fit 64 bits
C35_Wrapped ==
    /\ LamportsDone
    /\ calc.fn = "get_lamports_for_usd"
    /\ calc.ret[1].ok
    /\ ~DecLeq(MicroUsdOf(calc), U64_MAX_DEC)

\* Ten USD at 150 USD per SOL are 66,666,666 lamports
C35_TenUsd ==
    /\ LamportsDone
    /\ calc.fn = "get_lamports_for_usd"
    /\ calc.amount = Dec(<<1, 0>>)
    /\ calc.price_update.price = Dec(<<1, 5, 0, 0, 0, 0, 0, 0, 0, 0, 0>>)
    /\ calc.price_update.exponent = -8
    /\ calc.ret[1] = Ok(Dec(<<6, 6, 6, 6, 6, 6, 6, 6>>))

\* The record is Revealed and its claim window is over
WindowOver(k) ==
    /\ k \in DOMAIN requests
    /\ requests[k].status = "Revealed"
    /\ clock.unix_timestamp - requests[k].revealed_at >= CLAIM_TIMEOUT_SECONDS

\* The errors of the account constraints of claim and refund, raised
\* before the handler for a call of another signer or slot
ConstraintCodes == {"ConstraintSeeds", "Unauthorized", "InvalidRequestStatus"}

\* Every claim, refund and reveal on the record is turned down
AllTurnedDown(k) ==
    /\ \A in \in ClaimInputs \cup SwapCalls :
          in.key = k =>
              /\ ClaimError(in) \in {"ClaimExpired"} \cup ConstraintCodes
              /\ in.signer = requests[k].user /\ in.vrf_request_slot = k[2]
                    => ClaimError(in) = "ClaimExpired"
    /\ \A in \in RefundInputs :
          in.key = k =>
              /\ RefundCall(in) \in {"RefundNotAllowed"} \cup ConstraintCodes
              /\ in.signer = requests[k].user /\ in.vrf_request_slot = k[2]
                    => RefundCall(in) = "RefundNotAllowed"
    /\ \A signer \in Signers, randomness \in Entropies :
          ~ConsumeLotteryRandomnessOutcome(signer, k, randomness).ok

\* The record is left as it is, and a step that works on it moves no
\* balance
NothingPaid(k) ==
    /\ k \in DOMAIN requests'
    /\ requests'[k] = requests[k]
    /\ history'[k] = history[k]
    /\ ActKey = k =>
          /\ vault' = vault
          /\ vault_token' = vault_token
          /\ vault_wsol' = vault_wsol
          /\ user_token' = user_token

\* C36: once the claim window of a Revealed record is over, claim fails
\* with ClaimExpired, refund with RefundNotAllowed and reveal is refused;
\* no step changes or closes the record, and neither the reward nor the
\* stake leaves the vault
C36_ExpiredStaysRevealed ==
    /\ [](\A k \in DOMAIN history : WindowOver(k) => AllTurnedDown(k))
    /\ [][\A k \in DOMAIN history : WindowOver(k) => NothingPaid(k)]_vars

\* A record with a reward and a stake at the very end of its window: the
\* owner's claim is turned down with ClaimExpired
C36_Witness ==
    \E k \in DOMAIN requests :
        /\ WindowOver(k)
        /\ clock.unix_timestamp = requests[k].revealed_at + CLAIM_TIMEOUT_SECONDS
        /\ requests[k].total_won_usd > 0
        /\ requests[k].paid_amount > 0
        /\ ClaimError(ClaimBase(requests[k].user, k)) = "ClaimExpired"

\* The liquidity pool of the prize pool the reveal selected for the record
SelectedSwapPool(request) ==
    IF request.selected_pool_index \in DOMAIN prize_pools
    THEN prize_pools[request.selected_pool_index].swap_pool
    ELSE "none"

\* C37: a Token claim succeeds only if its swap goes through the prize
\* pool whose identifier the reveal stored in selected_pool_index
C37_RoutedToSelectedPool ==
    [][SwapClaimOk("jupiter_swap") \/ SwapClaimOk("raydium_swap")
         => frame.swap_pool = SelectedSwapPool(frame.mint_request)]_vars

\* A Token claim through another pool than the selected one is about to
\* invoke the venue
C37_OtherPoolInvoked ==
    /\ pc \in {"jupiter_swap", "raydium_swap"}
    /\ frame.swap_pool # SelectedSwapPool(frame.mint_request)
    /\ frame.mint_request.selected_pool_index \in DOMAIN prize_pools

\* The stakes of the Pending requests paid in the native currency
RECURSIVE PendingStakes(_)
PendingStakes(keys) ==
    IF keys = {} THEN 0
    ELSE LET k == CHOOSE x \in keys : TRUE
         IN  (IF requests[k].status = "Pending" /\ requests[k].payment_mode = "SOL"
              THEN requests[k].paid_amount ELSE 0)
             + PendingStakes(keys \ {k})

\* C38: the native balance of the vault is at least the sum of paid_amount
\* over the Pending requests paid in the native currency, and the refund of
\* a timed-out Pending request does not fail with InsufficientVaultBalance
C38_VaultCoversPending ==
    /\ vault >= PendingStakes(DOMAIN requests)
    /\ \A in \in RefundInputs : RefundCall(in) # "InsufficientVaultBalance"

\* A Pending request has timed out and the refund its owner asks for
\* fails for the balance of the vault
C38_RefundShort ==
    \E k \in DOMAIN requests :
        /\ is_pending_timeout(requests[k])
        /\ requests[k].payment_mode = "SOL"
        /\ vault < requests[k].paid_amount
        /\ RefundOutcome(requests[k].user, k, k[2], ValidTokenAccounts, TRUE)
             = "InsufficientVaultBalance"

\* The administrator has withdrawn the stake of a Pending request
C38_StakeWithdrawn ==
    /\ result.op = "withdraw_sol"
    /\ result.code = "Ok"
    /\ vault < PendingStakes(DOMAIN requests)

\* C39: under add and remove, no pool is ever given the identifier 255,
\* the value that marks an empty position, so that every entry 255 of the
\* active list is an empty position and not an active pool
C39_SentinelNeverAssigned ==
    /\ assigned[EMPTY_SLOT] = 0
    /\ EMPTY_SLOT \notin DOMAIN prize_pools
    /\ ConfigInitialized(config) =>
          \A i \in 0..(MAX_PRIZE_POOLS - 1) :
              config.active_pool_indices[i] = EMPTY_SLOT => i >= config.active_pool_count

\* add_prize_pool has returned Ok and the pool it created has the
\* identifier 255, which stands in the active list among the active
\* entries
C39_Pool255 ==
    /\ result.op = "add_prize_pool"
    /\ result.code = "Ok"
    /\ EMPTY_SLOT \in DOMAIN prize_pools
    /\ prize_pools[EMPTY_SLOT].index = EMPTY_SLOT
    /\ \E i \in 0..(config.active_pool_count - 1) :
          config.active_pool_indices[i] = EMPTY_SLOT

\* process_vrf_result has returned for a request of one card, a pool being
\* active
SingleCardReturned ==
    Returned /\ calc.amount_of_cards = 1 /\ config.active_pool_count >= 1

C40_WitnessLow ==
    /\ SingleCardReturned
    /\ calc.ret[1].val.total_won_usd = ToU64(TIER1_MIN_USD)
====
